---- MODULE Spec2Model ----
(***************************************************************************)
(* Tool dispatch and sandboxing layer of agent-smith:                      *)
(*   - normalize_path            (api/services/skill_file_ops_paths.py)    *)
(*   - ToolMapper.execute_tool   (api/services/tool_mapper.py)             *)
(*   - MemoryToolHandler         (api/services/memory_tool_handler.py)     *)
(* Text is modelled as a sequence of one-character strings.                *)
(***************************************************************************)
EXTENDS Integers, Sequences, FiniteSets, TLC

VARIABLES
    np_in,      \* normalize_path: the raw_path argument
    np_allow,   \* normalize_path: the allow_root keyword argument
    np_out,     \* normalize_path: outcome of the latest call (or pending)
    np_prev,    \* normalize_path: outcome of the call before a re-normalisation
    np_key,     \* ensure_allowed_path, then bucket_key: the guarded storage key
    tm_name,    \* execute_tool: the tool name of the call
    tm_params,  \* execute_tool: the parameters of the call
    tm_pc,      \* execute_tool: "ready" before the call, "done" after it
    tm_out,     \* execute_tool: what the call returned or raised, and its trace
    mem_rows,   \* the user_memories table: a set of rows
    mem_now,    \* the clock read by datetime.now
    mem_call,   \* execute_command: user and payload of the latest call
    mem_out,    \* execute_command: what the latest call returned, and its audit
    mem_prev,   \* the table as it was before the latest call
    mem_last,   \* execute_command: the call before the latest and its envelope
    cc_cmd,     \* concurrent requests: the payload of each request
    cc_pc,      \* concurrent requests: "start", "commit" or "done"
    cc_plan,    \* concurrent requests: the write a handler is about to commit
    cc_out,     \* concurrent requests: the envelope each request returned
    rt,         \* exponential_backoff_retry: one run of a decorated function
    rc,         \* RetryContext: max_retries, retry_count and the latest answer
    fs_nodes,   \* the filesystem: files and directories by absolute location
    fs_req,     \* a call of a storage, files-router or local-manage operation
    fs_out      \* that call's outcome

pathVars == <<np_in, np_allow, np_out, np_prev, np_key>>
toolVars == <<tm_name, tm_params, tm_pc, tm_out>>
memVars == <<mem_rows, mem_now, mem_call, mem_out, mem_prev, mem_last>>

concVars == <<cc_cmd, cc_pc, cc_plan, cc_out>>

retryVars == <<rt, rc>>

fileVars == <<fs_nodes, fs_req, fs_out>>

vars == <<pathVars, toolVars, memVars, concVars, retryVars, fileVars>>

(***************************************************************************)
(* Bounds                                                                  *)
(***************************************************************************)
MaxRawLen == 4
\* commands issued to the memory tool in one run
MaxCommands == 3
\* largest max_retries given to the retry helpers, besides the one in use
MaxRetries == 2

(***************************************************************************)
(* Text helpers (Python str methods)                                       *)
(***************************************************************************)
\* the directory that holds profile images, written as one fragment of text
PROFILE_IMAGES_PREFIX == "profile-images"

PathAlphabet == {"a", ".", "/", "\\", " ", PROFILE_IMAGES_PREFIX}

RECURSIVE StringsUpTo(_, _)
StringsUpTo(alphabet, n) ==
    IF n = 0 THEN {<<>>}
    ELSE LET shorter == StringsUpTo(alphabet, n - 1)
         IN  shorter \cup {Append(s, c) : s \in shorter, c \in alphabet}

RECURSIVE LStrip(_)
LStrip(s) == IF s # <<>> /\ Head(s) = " " THEN LStrip(Tail(s)) ELSE s

RECURSIVE RStrip(_)
RStrip(s) ==
    IF s # <<>> /\ s[Len(s)] = " " THEN RStrip(SubSeq(s, 1, Len(s) - 1)) ELSE s

\* str.strip()
Strip(s) == RStrip(LStrip(s))

\* a normaliser that forgets the backslash separator
ReplaceBackslashSkipped(s) == s

\* str.replace("\\", "/")
ReplaceBackslash(s) == [i \in 1..Len(s) |-> IF s[i] = "\\" THEN "/" ELSE s[i]]

\* str.split(sep) for a one-character separator: the segments, empty ones kept
RECURSIVE SplitOn(_, _)
SplitOn(s, sep) ==
    IF \A i \in 1..Len(s) : s[i] # sep THEN <<s>>
    ELSE LET k == CHOOSE i \in 1..Len(s) :
                      s[i] = sep /\ \A j \in 1..(i - 1) : s[j] # sep
         IN  <<SubSeq(s, 1, k - 1)>> \o SplitOn(SubSeq(s, k + 1, Len(s)), sep)

\* sep.join(parts)
RECURSIVE Join(_, _)
Join(parts, sep) ==
    IF parts = <<>> THEN <<>>
    ELSE IF Len(parts) = 1 THEN parts[1]
    ELSE parts[1] \o <<sep>> \o Join(Tail(parts), sep)

\* str.strip("/")
StripSlashes(s) ==
    LET kept  == {i \in 1..Len(s) : s[i] # "/"}
        first == CHOOSE i \in kept : \A j \in kept : i <= j
        last  == CHOOSE i \in kept : \A j \in kept : j <= i
    IN  IF kept = {} THEN <<>> ELSE SubSeq(s, first, last)

\* str.startswith
IsPrefix(pre, s) == Len(pre) <= Len(s) /\ SubSeq(s, 1, Len(pre)) = pre

RECURSIVE LeadingSlashes(_)
LeadingSlashes(s) ==
    IF s # <<>> /\ Head(s) = "/" THEN 1 + LeadingSlashes(Tail(s)) ELSE 0

RECURSIVE FilterSeq(_, _)
FilterSeq(parts, drop) ==
    IF parts = <<>> THEN <<>>
    ELSE IF Head(parts) \in drop THEN FilterSeq(Tail(parts), drop)
    ELSE <<Head(parts)>> \o FilterSeq(Tail(parts), drop)

DOT == <<".">>
DOTDOT == <<".", ".">>

\* pathlib.PurePosixPath(s).parts: the root ("/", or "//" for exactly two
\* leading slashes) followed by the segments that are neither empty nor "."
PosixParts(s) ==
    LET n    == LeadingSlashes(s)
        root == IF n = 0 THEN <<>>
                ELSE IF n = 2 THEN << <<"/", "/">> >>
                ELSE << <<"/">> >>
        rest == SubSeq(s, n + 1, Len(s))
    IN  root \o FilterSeq(SplitOn(rest, "/"), {<<>>, DOT})

(***************************************************************************)
(* normalize_path                                                          *)
(***************************************************************************)
PathOk(p) == [ok |-> TRUE, path |-> p, error |-> "none"]
PathErr(msg) == [ok |-> FALSE, path |-> <<>>, error |-> msg]

normalize_path(raw_path, allow_root) ==
    IF raw_path.none THEN PathErr("Path is required")
    ELSE
    LET path == Strip(raw_path.text) IN
    IF path \in {<<>>, DOT, <<"/">>}
    THEN IF allow_root THEN PathOk(<<>>) ELSE PathErr("Path cannot be empty")
    ELSE
    LET replaced   == ReplaceBackslash(path)
        unrooted   == IF replaced # <<>> /\ Head(replaced) = "/"
                      THEN Tail(replaced) ELSE replaced
        parts      == FilterSeq(PosixParts(unrooted), {<<>>, DOT})
        normalized == Join(parts, "/")
    IN  IF \E i \in 1..Len(parts) : parts[i] = DOTDOT
        THEN PathErr("Path traversal not allowed")
        ELSE IF normalized = <<>> /\ ~allow_root
        THEN PathErr("Path cannot be empty")
        ELSE PathOk(normalized)

\* whether the normalised path is the profile-images directory or inside it;
\* an error of normalize_path propagates
is_profile_images_path(path) ==
    LET normalized == normalize_path(path, TRUE)
    IN  IF ~normalized.ok
        THEN [raised |-> TRUE, error |-> normalized.error, value |-> FALSE]
        ELSE [raised |-> FALSE, error |-> "none",
              value |-> \/ normalized.path = <<PROFILE_IMAGES_PREFIX>>
                        \/ IsPrefix(<<PROFILE_IMAGES_PREFIX, "/">>,
                                    normalized.path)]

\* the error the guard raises, "none" when it returns
ensure_allowed_path(path) ==
    LET protected == is_profile_images_path(path)
    IN  IF protected.raised THEN protected.error
        ELSE IF protected.value THEN "Access to profile-images is not allowed"
        ELSE "none"

\* f"{user_id}/{path.strip('/')}", with a closing slash for a folder
bucket_key(user_id, path, is_folder) ==
    LET key == user_id \o <<"/">> \o StripSlashes(path)
    IN  IF is_folder
        THEN IF key # <<>> /\ key[Len(key)] # "/" THEN key \o <<"/">> ELSE key
        ELSE key

NoKey == [state |-> "pending", raw |-> [none |-> TRUE, text |-> <<>>],
          user |-> <<>>, error |-> "none", key |-> <<>>]

RawPaths ==
    {[none |-> TRUE, text |-> <<>>]}
        \cup {[none |-> FALSE, text |-> s] : s \in StringsUpTo(PathAlphabet, MaxRawLen)}

Pending == [ok |-> FALSE, path |-> <<>>, error |-> "pending"]

PathInit ==
    /\ np_in \in RawPaths
    /\ np_allow \in BOOLEAN
    /\ np_out = Pending
    /\ np_prev = Pending
    /\ np_key = NoKey

\* a caller normalises a raw path
NormalizeCall ==
    /\ np_out = Pending
    /\ np_out' = normalize_path(np_in, np_allow)
    /\ UNCHANGED <<np_in, np_allow, np_prev, np_key, toolVars, memVars,
                 concVars, retryVars, fileVars>>

\* a caller feeds an accepted path back into normalize_path
NormalizeAgain ==
    /\ np_out.ok
    /\ np_prev = Pending
    /\ np_prev' = np_out
    /\ np_in' = [none |-> FALSE, text |-> np_out.path]
    /\ np_out' = normalize_path([none |-> FALSE, text |-> np_out.path], np_allow)
    /\ UNCHANGED <<np_allow, np_key, toolVars, memVars, concVars, retryVars, fileVars>>

\* a file operation guards a raw path and then derives its storage key
GuardedKey ==
    /\ np_key = NoKey
    /\ \E user_id \in {<<"u">>}, is_folder \in BOOLEAN :
           np_key' =
               LET refusal == ensure_allowed_path(np_in)
               IN  IF refusal # "none"
                   THEN [state |-> "refused", raw |-> np_in, user |-> user_id,
                         error |-> refusal, key |-> <<>>]
                   ELSE [state |-> "allowed", raw |-> np_in, user |-> user_id,
                         error |-> "none",
                         key |-> bucket_key(user_id,
                                            normalize_path(np_in, TRUE).path,
                                            is_folder)]
    /\ UNCHANGED <<np_in, np_allow, np_out, np_prev, toolVars, memVars,
                 concVars, retryVars, fileVars>>

PathNext == NormalizeCall \/ NormalizeAgain \/ GuardedKey

PathParked ==
    /\ np_in = [none |-> TRUE, text |-> <<>>]
    /\ np_allow = TRUE
    /\ np_out = [ok |-> FALSE, path |-> <<>>, error |-> "parked"]
    /\ np_prev = Pending
    /\ np_key = NoKey

IsSlash(c) == c \in {"/", "\\"}

\* a ".." standing between separators (or the ends) of the raw text
HasDotDotSegment(s) ==
    \E i \in 1..(Len(s) - 1) :
        /\ s[i] = "." /\ s[i + 1] = "."
        /\ (i = 1 \/ IsSlash(s[i - 1]))
        /\ (i + 1 = Len(s) \/ IsSlash(s[i + 2]))

\* C5: every raw path with a ".." segment, in any position and with either
\* slash style, is refused with the path-traversal error and yields no path.
C5_TraversalRejected ==
    (np_out # Pending /\ ~np_in.none /\ HasDotDotSegment(np_in.text))
        => np_out = PathErr("Path traversal not allowed")

C5_Witness ==
    /\ np_in = [none |-> FALSE, text |-> <<"a", "\\", ".", ".">>]
    /\ np_out = PathErr("Path traversal not allowed")

\* C6: normalising an accepted path again succeeds and returns the same
\* path: normalize_path(normalize_path(p)) = normalize_path(p).
C6_Idempotent ==
    np_prev # Pending => np_out = np_prev

\* the key is the user's profile-images directory or lies inside it
AddressesProtected(user_id, key) ==
    \/ key = user_id \o <<"/", PROFILE_IMAGES_PREFIX>>
    \/ IsPrefix(user_id \o <<"/", PROFILE_IMAGES_PREFIX, "/">>, key)

\* C26: ensure_allowed_path refuses every raw path that addresses the
\* protected profile-images subtree: the storage key derived from a path it
\* accepts is neither '<user>/profile-images' nor under '<user>/profile-images/'.
C26_ProtectedSubtreeRefused ==
    np_key.state = "allowed" => ~AddressesProtected(np_key.user, np_key.key)

\* the segments of an accepted path, split at "/"
Segments(p) == SplitOn(p, "/")

RootRelative(p) ==
    /\ p = <<>> \/ Head(p) # "/"
    /\ \A i \in 1..Len(p) : p[i] # "\\"
    /\ p # <<>> => \A i \in 1..Len(Segments(p)) :
                       Segments(p)[i] \notin {<<>>, DOT, DOTDOT}

\* C27: every path normalize_path returns is root-relative and
\* forward-slash-normalised: no leading "/", no backslash, and no segment
\* that is empty, "." or "..".
C27_ReturnsRootRelative ==
    np_out.ok => RootRelative(np_out.path)

DenotesRoot(raw) == ~raw.none /\ Strip(raw.text) \in {<<>>, DOT, <<"/">>}

SlashOnly(p) == \A i \in 1..Len(p) : p[i] = "/"

\* C28: with allow_root, '', '.' and '/' normalise to the empty path; without
\* it, those inputs raise and no empty or slash-only path is ever returned.
C28_RootHandling ==
    /\ (np_out # Pending /\ np_allow /\ DenotesRoot(np_in))
           => np_out = PathOk(<<>>)
    /\ (np_out # Pending /\ ~np_allow /\ DenotesRoot(np_in)) => ~np_out.ok
    /\ (np_out.ok /\ ~np_allow) => ~SlashOnly(np_out.path)

(***************************************************************************)
(* JSON-like values handled by ToolMapper.  Text is a tuple of string      *)
(* fragments; the empty text is <<>>.                                      *)
(***************************************************************************)
None == [t |-> "null"]
Str(s) == [t |-> "str", v |-> s]
Bool(b) == [t |-> "bool", v |-> b]
Dict(m) == [t |-> "dict", m |-> m]
BareList == [t |-> "list", v |-> <<>>]
Num(n) == [t |-> "num", v |-> n]
EmptyMap == [k \in {} |-> None]

IsDict(x) == x.t = "dict"

\* dict.get(key, default)
GetOr(m, key, default) == IF key \in DOMAIN m THEN m[key] ELSE default

\* dict.get(key)
Get(m, key) == GetOr(m, key, None)

\* Python truth value of a JSON-like value
Truthy(x) ==
    CASE x.t = "null" -> FALSE
      [] x.t = "bool" -> x.v
      [] x.t = "str"  -> x.v # <<>>
      [] x.t = "num"  -> x.v # 0
      [] x.t = "list" -> x.v # <<>>
      [] x.t = "dict" -> DOMAIN x.m # {}

\* ToolMapper._normalize_result
NormalizeResult(result) ==
    IF IsDict(result)
    THEN LET success == Truthy(GetOr(result.m, "success", Bool(FALSE)))
             data0   == Get(result.m, "data")
             error0  == Get(result.m, "error")
             data    == IF success /\ data0 = None
                        THEN Dict([k \in DOMAIN result.m \ {"success", "error"}
                                      |-> result.m[k]])
                        ELSE data0
             error   == IF ~success /\ ~Truthy(error0)
                        THEN Str(<<"Unknown error">>)
                        ELSE error0
         IN  [success |-> success, data |-> data, error |-> error]
    ELSE [success |-> TRUE, data |-> result, error |-> None]

\* the dict literal {"success": False, "error": message}
FailureDict(message) ==
    Dict([k \in {"success", "error"} |->
             IF k = "success" THEN Bool(FALSE) ELSE Str(message)])

(***************************************************************************)
(* Capability registry (ToolMapper.tools) and argument builders            *)
(***************************************************************************)
NoSkill == "None"

\* self.tools: the entries of the registry.  Entries that differ from
\* "Delete Note" or "Get Scratchpad" only in their script and key names
\* (Pin/Move/Get/List Note, Clear Scratchpad, the website tools) are
\* represented by those two.
Tools ==
    [name \in {"Browse Files", "Read File", "Write File", "Search Files",
               "Create Note", "Update Note", "Delete Note", "Get Scratchpad",
               "Update Scratchpad", "Set UI Theme"} |->
        CASE name = "Browse Files" ->
                [skill |-> "fs", script |-> "list.py", validate |-> "read"]
          [] name = "Read File" ->
                [skill |-> "fs", script |-> "read.py", validate |-> "read"]
          [] name = "Write File" ->
                [skill |-> "fs", script |-> "write.py", validate |-> "write"]
          [] name = "Search Files" ->
                [skill |-> "fs", script |-> "search.py", validate |-> "read"]
          [] name = "Create Note" ->
                [skill |-> "notes", script |-> "save_markdown.py", validate |-> "none"]
          [] name = "Update Note" ->
                [skill |-> "notes", script |-> "save_markdown.py", validate |-> "none"]
          [] name = "Delete Note" ->
                [skill |-> "notes", script |-> "delete_note.py", validate |-> "none"]
          [] name = "Get Scratchpad" ->
                [skill |-> "notes", script |-> "scratchpad_get.py", validate |-> "none"]
          [] name = "Update Scratchpad" ->
                [skill |-> "notes", script |-> "scratchpad_update.py", validate |-> "none"]
          [] name = "Set UI Theme" ->
                [skill |-> NoSkill, script |-> NoSkill, validate |-> "none"]]

ToolNames == DOMAIN Tools

\* texts used as parameter values
NOTES == <<"n", "o", "t", "e", "s">>
DOCUMENTS == <<"d", "o", "c", "u", "m", "e", "n", "t", "s">>
P_NOTE == NOTES \o <<"/", "a">>
P_ETC == <<"e", "t", "c">>
P_TRAV == <<".", ".", "/", "e", "t", "c">>
P_BACKTRAV == NOTES \o <<"\\", ".", ".">>
SECRET == <<"s", "e", "c", "r", "e", "t">>
LIGHT == <<"l", "i", "g", "h", "t">>
DARK == <<"d", "a", "r", "k">>
BLUE == <<"b", "l", "u", "e">>
NOTE_ID == <<"n", "1">>

ParamKeys == {"path", "directory", "content", "theme", "note_id"}

ParamValues(key) ==
    CASE key = "path"      -> {P_NOTE, P_ETC, P_TRAV, <<>>}
      [] key = "directory" -> {NOTES, P_BACKTRAV}
      [] key = "content"   -> {SECRET}
      [] key = "theme"     -> {LIGHT, DARK, BLUE}
      [] key = "note_id"   -> {NOTE_ID}

\* the parameter maps a caller may pass: any subset of the keys
ParamMaps ==
    UNION {{m \in [K -> UNION {ParamValues(k) : k \in ParamKeys}] : \A k \in K : m[k] \in ParamValues(k)} :
              K \in SUBSET ParamKeys}

BuildOk(args) == [ok |-> TRUE, args |-> args, error |-> <<>>]
\* params[key] on a missing key: KeyError, whose text is the quoted key
KeyError(key) == [ok |-> FALSE, args |-> <<>>, error |-> <<"'", key, "'">>]

\* _build_fs_list_args
build_fs_list_args(params) ==
    BuildOk(<<GetOr(params, "path", DOT), <<"--pattern">>, <<"*">> >>)

\* _build_fs_read_args
build_fs_read_args(params) ==
    IF "path" \notin DOMAIN params THEN KeyError("path")
    ELSE BuildOk(<<params["path"]>>)

\* _build_fs_write_args
build_fs_write_args(params) ==
    IF "path" \notin DOMAIN params THEN KeyError("path")
    ELSE IF "content" \notin DOMAIN params THEN KeyError("content")
    ELSE BuildOk(<<params["path"], <<"--content">>, params["content"]>>)

\* _build_fs_search_args
build_fs_search_args(params) ==
    BuildOk(<< <<"--directory">>, GetOr(params, "directory", DOT)>>)

\* _build_notes_create_args
build_notes_create_args(params) ==
    IF "content" \notin DOMAIN params THEN KeyError("content")
    ELSE BuildOk(<< <<>>, <<"--content">>, params["content"],
                    <<"--mode">>, <<"create">>, <<"--database">> >>)

\* _build_notes_update_args
build_notes_update_args(params) ==
    IF "content" \notin DOMAIN params THEN KeyError("content")
    ELSE IF "note_id" \notin DOMAIN params THEN KeyError("note_id")
    ELSE BuildOk(<< <<>>, <<"--content">>, params["content"], <<"--mode">>,
                    <<"update">>, <<"--note-id">>, params["note_id"],
                    <<"--database">> >>)

\* tool_config["build_args"](parameters)
build_args(name, params) ==
    CASE name = "Browse Files" -> build_fs_list_args(params)
      [] name = "Read File" -> build_fs_read_args(params)
      [] name = "Write File" -> build_fs_write_args(params)
      [] name = "Search Files" -> build_fs_search_args(params)
      [] name = "Create Note" -> build_notes_create_args(params)
      [] name = "Update Note" -> build_notes_update_args(params)
      [] name = "Delete Note" ->
            IF "note_id" \notin DOMAIN params THEN KeyError("note_id")
            ELSE BuildOk(<<params["note_id"], <<"--database">> >>)
      [] name = "Get Scratchpad" -> BuildOk(<< <<"--database">> >>)
      [] name = "Update Scratchpad" ->
            IF "content" \notin DOMAIN params THEN KeyError("content")
            ELSE BuildOk(<< <<"--content">>, params["content"], <<"--database">> >>)

(***************************************************************************)
(* PathValidator (api/security/path_validator.py), from the Path Sandbox   *)
(* contract: a ".." segment is a traversal, a write outside the writable   *)
(* roots is denied.                                                        *)
(***************************************************************************)
WritableRoots == {NOTES, DOCUMENTS}

ValidatorSegments(p) ==
    FilterSeq(SplitOn([i \in 1..Len(p) |-> IF p[i] = "\\" THEN "/" ELSE p[i]], "/"),
              {<<>>, DOT})

Accepted == [ok |-> TRUE, error |-> <<>>]
Rejected(msg) == [ok |-> FALSE, error |-> msg]

validate_read_path(p) ==
    IF \E i \in 1..Len(ValidatorSegments(p)) : ValidatorSegments(p)[i] = DOTDOT
    THEN Rejected(<<"PathTraversalError">>)
    ELSE Accepted

validate_write_path(p) ==
    IF \E i \in 1..Len(ValidatorSegments(p)) : ValidatorSegments(p)[i] = DOTDOT
    THEN Rejected(<<"PathTraversalError">>)
    ELSE IF ValidatorSegments(p) = <<>> \/ ValidatorSegments(p)[1] \notin WritableRoots
    THEN Rejected(<<"AccessDeniedError">>)
    ELSE Accepted

(***************************************************************************)
(* SkillExecutor.execute and AuditLogger.log_tool_call: what they may hand *)
(* back to execute_tool                                                    *)
(***************************************************************************)
RawKeys == {"success", "data", "error", "path"}

RawValues(key) ==
    CASE key = "success" -> {Bool(TRUE), Bool(FALSE)}
      [] key = "data"    -> {None, Dict([k \in {"content"} |-> Str(SECRET)])}
      [] key = "error"   -> {None, Str(<<>>), Str(<<"tool failed">>)}
      [] key = "path"    -> {Str(P_NOTE)}

\* the JSON objects a capability may print
RawDicts ==
    UNION {{Dict(m) : m \in {f \in [K -> UNION {RawValues(k) : k \in RawKeys}] :
                                \A k \in K : f[k] \in RawValues(k)}} :
              K \in SUBSET RawKeys}

\* bare JSON values a capability may print
RawBare == {None, BareList, Str(SECRET), Num(1)}

\* the executor returns a parsed value or raises
ExecOutcomes ==
    {[kind |-> "return", value |-> v, msg |-> <<>>] : v \in RawDicts \cup RawBare}
        \cup {[kind |-> "raise", value |-> None, msg |-> m] :
                 m \in {<<"capability timed out">>, <<>>}}

SinkFailure == <<"audit sink failed">>

(***************************************************************************)
(* ToolMapper.execute_tool                                                 *)
(***************************************************************************)

\* what one call has done so far
EmptyTrace ==
    [audit |-> <<>>, validator |-> <<>>, built |-> FALSE, exec |-> <<>>,
     sinkFailures |-> 0]

AuditEntry(name, params, success, error) ==
    [tool_name |-> name, parameters |-> params, success |-> success, error |-> error]

Returned(result, trace) ==
    [returned |-> TRUE, result |-> result, raised |-> <<>>, trace |-> trace]

Propagated(msg, trace) ==
    [returned |-> FALSE,
     result |-> [success |-> FALSE, data |-> None, error |-> Str(<<"<no result>">>)],
     raised |-> msg, trace |-> trace]

\* the parameters logged after the executor has returned
\* (log_params, lines 417-421)
LogParams(name, params) ==
    IF "content" \in DOMAIN params /\ name = "Update Scratchpad"
    THEN [k \in DOMAIN params |->
             IF k = "content" THEN <<"<redacted>">> ELSE params[k]]
    ELSE IF "content" \in DOMAIN params
            /\ name \in {"Create Note", "Update Note", "Write File"}
    THEN [k \in DOMAIN params \ {"content"} |-> params[k]]
    ELSE params

\* a dispatcher without the except branch: the exception reaches the caller
ExceptBranchReraises(name, params, msg, sinkExc, trace) ==
    Propagated(msg, trace)

\* except Exception as e (lines 432-440): the call is logged with the caller's
\* parameters as they came in (line 435)
ExceptBranch(name, params, msg, sinkExc, trace) ==
    IF sinkExc
    THEN Propagated(SinkFailure, [trace EXCEPT !.sinkFailures = @ + 1])
    ELSE Returned(NormalizeResult(FailureDict(msg)),
                  [trace EXCEPT !.audit = Append(@,
                      AuditEntry(name, params, FALSE, Str(msg)))])

\* the path handed to validate_read_path (line 403)
PathToValidate(params) ==
    IF "path" \in DOMAIN params /\ params["path"] # <<>>
    THEN params["path"]
    ELSE GetOr(params, "directory", DOT)

\* lines 406-430: build the arguments, run the executor, log, normalise
BuildAndRun(name, params, execOut, sinkTry, sinkExc, trace) ==
    LET built  == build_args(name, params)
        trace1 == [trace EXCEPT !.built = TRUE]
        trace2 == [trace1 EXCEPT !.exec = Append(@,
                      [skill |-> Tools[name].skill, script |-> Tools[name].script,
                       args |-> built.args, outcome |-> execOut])]
    IN  IF ~built.ok THEN ExceptBranch(name, params, built.error, sinkExc, trace1)
        ELSE IF execOut.kind = "raise"
        THEN ExceptBranch(name, params, execOut.msg, sinkExc, trace2)
        ELSE IF ~IsDict(execOut.value)
        THEN ExceptBranch(name, params, <<"object has no attribute 'get'">>,
                          sinkExc, trace2)
        ELSE IF sinkTry
        THEN ExceptBranch(name, params, SinkFailure, sinkExc,
                          [trace2 EXCEPT !.sinkFailures = @ + 1])
        ELSE Returned(NormalizeResult(execOut.value),
                      [trace2 EXCEPT !.audit = Append(@,
                          AuditEntry(name, LogParams(name, params),
                                     GetOr(execOut.value.m, "success", Bool(FALSE)).v,
                                     None))])

\* an inline theme capability that accepts whatever theme it is given
SetUiThemeUnchecked(name, params, sinkTry, sinkExc, trace) ==
    IF "theme" \notin DOMAIN params
    THEN Returned(NormalizeResult(FailureDict(<<"Invalid theme">>)), trace)
    ELSE Returned(
            NormalizeResult(Dict([k \in {"success", "data"} |->
                IF k = "success" THEN Bool(TRUE)
                ELSE Dict([j \in {"theme"} |-> Str(params["theme"])])])),
            [trace EXCEPT !.audit = Append(@,
                AuditEntry(name, [j \in {"theme"} |-> params["theme"]], TRUE, None))])

\* lines 381-396: the inline "Set UI Theme" capability
SetUiTheme(name, params, sinkTry, sinkExc, trace) ==
    IF "theme" \notin DOMAIN params \/ params["theme"] \notin {LIGHT, DARK}
    THEN Returned(NormalizeResult(FailureDict(<<"Invalid theme">>)), trace)
    ELSE IF sinkTry
    THEN ExceptBranch(name, params, SinkFailure, sinkExc,
                      [trace EXCEPT !.sinkFailures = @ + 1])
    ELSE Returned(
            NormalizeResult(Dict([k \in {"success", "data"} |->
                IF k = "success" THEN Bool(TRUE)
                ELSE Dict([j \in {"theme"} |-> Str(params["theme"])])])),
            [trace EXCEPT !.audit = Append(@,
                AuditEntry(name, [j \in {"theme"} |-> params["theme"]], TRUE, None))])

\* lines 398-404: path validation chosen by the entry's classification
ValidateAndRun(name, params, execOut, sinkTry, sinkExc, trace) ==
    IF Tools[name].validate = "write" /\ "path" \in DOMAIN params
    THEN LET v  == validate_write_path(params["path"])
             tr == [trace EXCEPT !.validator =
                       Append(@, [path |-> params["path"], ok |-> v.ok])]
         IN  IF ~v.ok THEN ExceptBranch(name, params, v.error, sinkExc, tr)
             ELSE BuildAndRun(name, params, execOut, sinkTry, sinkExc, tr)
    ELSE IF Tools[name].validate = "read"
    THEN LET v  == validate_read_path(PathToValidate(params))
             tr == [trace EXCEPT !.validator =
                       Append(@, [path |-> PathToValidate(params), ok |-> v.ok])]
         IN  IF ~v.ok THEN ExceptBranch(name, params, v.error, sinkExc, tr)
             ELSE BuildAndRun(name, params, execOut, sinkTry, sinkExc, tr)
    ELSE BuildAndRun(name, params, execOut, sinkTry, sinkExc, trace)

\* a dispatcher that indexes the registry: an unknown name is a KeyError
execute_tool_indexing(name, params, execOut, sinkTry, sinkExc) ==
    IF name \notin ToolNames
    THEN ExceptBranch(name, params, KeyError(name).error, sinkExc, EmptyTrace)
    ELSE IF name = "Set UI Theme"
    THEN SetUiTheme(name, params, sinkTry, sinkExc, EmptyTrace)
    ELSE ValidateAndRun(name, params, execOut, sinkTry, sinkExc, EmptyTrace)

\* ToolMapper.execute_tool: the outcome of one call, given what the executor
\* and the audit sink do when they are reached
execute_tool(name, params, execOut, sinkTry, sinkExc) ==
    IF name \notin ToolNames
    THEN Returned(NormalizeResult(FailureDict(<<"Unknown tool: ", name>>)), EmptyTrace)
    ELSE IF name = "Set UI Theme"
    THEN SetUiTheme(name, params, sinkTry, sinkExc, EmptyTrace)
    ELSE ValidateAndRun(name, params, execOut, sinkTry, sinkExc, EmptyTrace)

CallNames == ToolNames \cup {"Unknown Tool", ""}

NotCalled == Propagated(<<"<not called>">>, EmptyTrace)

ToolInit ==
    /\ tm_name \in CallNames
    /\ tm_params \in ParamMaps
    /\ tm_pc = "ready"
    /\ tm_out = NotCalled

ToolParked ==
    /\ tm_name = "Unknown Tool"
    /\ tm_params = EmptyMap
    /\ tm_pc = "parked"
    /\ tm_out = NotCalled

\* the agent calls execute_tool(name, parameters); the audit sink keeps its
\* contract and never throws back
ExecuteTool ==
    /\ tm_pc = "ready"
    /\ \E execOut \in ExecOutcomes :
          tm_out' = execute_tool(tm_name, tm_params, execOut, FALSE, FALSE)
    /\ tm_pc' = "done"
    /\ UNCHANGED <<tm_name, tm_params, pathVars, memVars, concVars, retryVars, fileVars>>

\* the same call when log_tool_call raises, in the try block, in the except
\* block, or in both
ExecuteToolSinkFault ==
    /\ tm_pc = "ready"
    /\ \E execOut \in ExecOutcomes, sinkTry \in BOOLEAN, sinkExc \in BOOLEAN :
          /\ sinkTry \/ sinkExc
          /\ tm_out' = execute_tool(tm_name, tm_params, execOut, sinkTry, sinkExc)
    /\ tm_pc' = "done"
    /\ UNCHANGED <<tm_name, tm_params, pathVars, memVars, concVars, retryVars, fileVars>>

ToolFaultNext == ExecuteTool \/ ExecuteToolSinkFault

(***************************************************************************)
(* MemoryToolHandler: text helpers                                         *)
(***************************************************************************)
\* one fragment standing for a run of filler characters, half the content
\* ceiling long, that occurs in no search string
FILL == "<51200 filler bytes>"
\* one fragment standing for a run of letters as long as the path limit
LONG == "<500 letters>"

FragBytes(c) == IF c = FILL THEN 51200 ELSE IF c = LONG THEN 500 ELSE 1

\* len(text.encode("utf-8")) and len(text)
RECURSIVE ByteLen(_)
ByteLen(s) == IF s = <<>> THEN 0 ELSE FragBytes(Head(s)) + ByteLen(Tail(s))

\* "needle in text"
Contains(s, needle) ==
    \E i \in 1..(Len(s) - Len(needle) + 1) : SubSeq(s, i, i + Len(needle) - 1) = needle

\* str.count(old): non-overlapping occurrences, scanned left to right
RECURSIVE Count(_, _)
Count(s, old) ==
    IF old = <<>> THEN Len(s) + 1
    ELSE IF Len(s) < Len(old) THEN 0
    ELSE IF IsPrefix(old, s) THEN 1 + Count(SubSeq(s, Len(old) + 1, Len(s)), old)
    ELSE Count(Tail(s), old)

\* str.replace(old, new): every non-overlapping occurrence, left to right
RECURSIVE Replace(_, _, _)
Replace(s, old, new) ==
    IF old = <<>>
    THEN IF s = <<>> THEN new ELSE new \o <<Head(s)>> \o Replace(Tail(s), old, new)
    ELSE IF Len(s) < Len(old) THEN s
    ELSE IF IsPrefix(old, s)
    THEN new \o Replace(SubSeq(s, Len(old) + 1, Len(s)), old, new)
    ELSE <<Head(s)>> \o Replace(Tail(s), old, new)

(***************************************************************************)
(* MemoryToolHandler: validation                                           *)
(***************************************************************************)
MAX_CONTENT_BYTES == 100 * 1024
MAX_PATH_LENGTH == 500

MEM_PREFIX == <<"/", "m", "e", "m", "o", "r", "i", "e", "s", "/">>
MD_SUFFIX == <<".", "m", "d">>

\* the characters of the model that [a-zA-Z0-9_/-] accepts
PathClass == {"a", "b", "/", "-", "_", LONG}

\* ^/memories/[a-zA-Z0-9_/-]+\.md$ on a text without a trailing newline
MatchesStrict(p) ==
    /\ Len(p) > Len(MEM_PREFIX) + Len(MD_SUFFIX)
    /\ IsPrefix(MEM_PREFIX, p)
    /\ Len(MD_SUFFIX) <= Len(p)
    /\ SubSeq(p, Len(p) - Len(MD_SUFFIX) + 1, Len(p)) = MD_SUFFIX
    /\ \A i \in (Len(MEM_PREFIX) + 1)..(Len(p) - Len(MD_SUFFIX)) : p[i] \in PathClass

\* PATH_PATTERN.match(path): "$" also matches before a final newline
MatchesPathPattern(p) ==
    \/ MatchesStrict(p)
    \/ (p # <<>> /\ p[Len(p)] = "\n" /\ MatchesStrict(SubSeq(p, 1, Len(p) - 1)))

Valid == <<>>

\* _validate_path: the ValueError message, or Valid
validate_path(payload, key) ==
    IF key \notin DOMAIN payload THEN <<"Invalid path">>
    ELSE LET path == payload[key] IN
         IF ByteLen(path) > MAX_PATH_LENGTH THEN <<"Path too long">>
         ELSE IF Contains(path, DOTDOT) \/ Contains(path, <<"/", "/">>)
         THEN <<"Invalid path">>
         ELSE IF ~MatchesPathPattern(path) THEN <<"Invalid path format">>
         ELSE Valid

\* a content check without the size ceiling
validate_text_unbounded(content) == Valid

\* _validate_content on a text: the ValueError message, or Valid
validate_text(content) ==
    IF ByteLen(content) > MAX_CONTENT_BYTES THEN <<"Content too large">> ELSE Valid

\* _validate_content on a payload entry (a missing entry is None)
validate_content(payload, key) ==
    IF key \notin DOMAIN payload THEN <<"Invalid content">>
    ELSE validate_text(payload[key])

\* a merge that never adds a separator
merge_text_plain(first, second) == first \o second

\* _merge_text
merge_text(first, second) ==
    IF first = <<>> THEN second
    ELSE IF second = <<>> THEN first
    ELSE IF first[Len(first)] = "\n" \/ second[1] = "\n" THEN first \o second
    ELSE first \o <<"\n">> \o second

(***************************************************************************)
(* MemoryToolHandler: the record store and the command handlers            *)
(***************************************************************************)
\* a query that filters on the path alone
MatchingAnyOwner(rows, user, path) == {r \in rows : r.path = path}

\* db.query(UserMemory).filter(user_id == ..., path == ...)
Matching(rows, user, path) == {r \in rows : r.user_id = user /\ r.path = path}

HasMemory(rows, user, path) == Matching(rows, user, path) # {}

\* _get_memory: .first() of the matching rows, taken in insertion order
get_memory(rows, user, path) ==
    CHOOSE r \in Matching(rows, user, path) :
        \A q \in Matching(rows, user, path) : r.id <= q.id

\* the primary key given to a new row
NewId(rows) == CHOOSE n \in 1..(Cardinality(rows) + 1) : \A r \in rows : r.id # n

\* _success and _error
MemSuccess(m) == [success |-> TRUE, data |-> Dict(m), error |-> None]
MemError(message) == [success |-> FALSE, data |-> None, error |-> Str(message)]

PathAndContent(path, content) ==
    [k \in {"path", "content"} |-> IF k = "path" THEN Str(path) ELSE Str(content)]

\* what a handler does after validating and reading: return an envelope,
\* raise, or write to the store and commit
NoWrite == [op |-> "none"]
Ret(envelope) == [kind |-> "return", result |-> envelope, msg |-> <<>>, write |-> NoWrite]
Raise(msg) == [kind |-> "raise", result |-> MemError(msg), msg |-> msg, write |-> NoWrite]
Write(w) == [kind |-> "write", result |-> MemError(<<>>), msg |-> <<>>, write |-> w]

\* a create that does not look for an existing record
handle_create_unchecked(rows, user, payload) ==
    IF validate_path(payload, "path") # Valid THEN Raise(validate_path(payload, "path"))
    ELSE IF validate_content(payload, "content") # Valid
    THEN Raise(validate_content(payload, "content"))
    ELSE Write([op |-> "insert", user_id |-> user, path |-> payload["path"],
                content |-> payload["content"]])

\* _handle_create, up to db.add
handle_create(rows, user, payload) ==
    IF validate_path(payload, "path") # Valid THEN Raise(validate_path(payload, "path"))
    ELSE IF validate_content(payload, "content") # Valid
    THEN Raise(validate_content(payload, "content"))
    ELSE IF HasMemory(rows, user, payload["path"])
    THEN Ret(MemError(<<"Memory already exists">>))
    ELSE Write([op |-> "insert", user_id |-> user, path |-> payload["path"],
                content |-> payload["content"]])

\* a str_replace that treats a missing old_str as nothing to do
handle_str_replace_lenient(rows, user, payload) ==
    IF validate_path(payload, "path") # Valid THEN Raise(validate_path(payload, "path"))
    ELSE IF "old_str" \notin DOMAIN payload \/ "new_str" \notin DOMAIN payload
    THEN Ret(MemError(<<"Invalid replace parameters">>))
    ELSE IF ~HasMemory(rows, user, payload["path"])
    THEN Ret(MemError(<<"Memory not found">>))
    ELSE LET memory  == get_memory(rows, user, payload["path"])
             updated == Replace(memory.content, payload["old_str"], payload["new_str"])
         IN  IF Count(memory.content, payload["old_str"]) > 1
             THEN Ret(MemError(<<"Old string is not unique">>))
             ELSE IF validate_text(updated) # Valid THEN Raise(validate_text(updated))
             ELSE Write([op |-> "update", id |-> memory.id, content |-> updated])

\* _handle_str_replace, up to db.commit
handle_str_replace(rows, user, payload) ==
    IF validate_path(payload, "path") # Valid THEN Raise(validate_path(payload, "path"))
    ELSE IF "old_str" \notin DOMAIN payload \/ "new_str" \notin DOMAIN payload
    THEN Ret(MemError(<<"Invalid replace parameters">>))
    ELSE IF ~HasMemory(rows, user, payload["path"])
    THEN Ret(MemError(<<"Memory not found">>))
    ELSE LET memory      == get_memory(rows, user, payload["path"])
             occurrences == Count(memory.content, payload["old_str"])
             updated     == Replace(memory.content, payload["old_str"], payload["new_str"])
         IN  IF occurrences = 0 THEN Ret(MemError(<<"Old string not found">>))
             ELSE IF occurrences > 1 THEN Ret(MemError(<<"Old string is not unique">>))
             ELSE IF validate_text(updated) # Valid THEN Raise(validate_text(updated))
             ELSE Write([op |-> "update", id |-> memory.id, content |-> updated])

\* _handle_insert, up to db.commit
handle_insert(rows, user, payload) ==
    IF validate_path(payload, "path") # Valid THEN Raise(validate_path(payload, "path"))
    ELSE IF validate_content(payload, "content") # Valid
    THEN Raise(validate_content(payload, "content"))
    ELSE IF "position" \notin DOMAIN payload
            \/ payload["position"] \notin {<<"start">>, <<"end">>}
    THEN Ret(MemError(<<"Invalid insert position">>))
    ELSE IF ~HasMemory(rows, user, payload["path"])
    THEN Ret(MemError(<<"Memory not found">>))
    ELSE LET memory  == get_memory(rows, user, payload["path"])
             updated == IF payload["position"] = <<"start">>
                        THEN merge_text(payload["content"], memory.content)
                        ELSE merge_text(memory.content, payload["content"])
         IN  IF validate_text(updated) # Valid THEN Raise(validate_text(updated))
             ELSE Write([op |-> "update", id |-> memory.id, content |-> updated])

\* a delete that reports success and leaves the record in place
handle_delete_soft(rows, user, payload) ==
    IF validate_path(payload, "path") # Valid THEN Raise(validate_path(payload, "path"))
    ELSE IF ~HasMemory(rows, user, payload["path"])
    THEN Ret(MemError(<<"Memory not found">>))
    ELSE Ret(MemSuccess([k \in {"path"} |-> Str(payload["path"])]))

\* _handle_delete, up to db.commit
handle_delete(rows, user, payload) ==
    IF validate_path(payload, "path") # Valid THEN Raise(validate_path(payload, "path"))
    ELSE IF ~HasMemory(rows, user, payload["path"])
    THEN Ret(MemError(<<"Memory not found">>))
    ELSE Write([op |-> "delete", id |-> get_memory(rows, user, payload["path"]).id,
                path |-> payload["path"]])

\* a rename that does not look at the destination
handle_rename_unchecked(rows, user, payload) ==
    IF validate_path(payload, "old_path") # Valid
    THEN Raise(validate_path(payload, "old_path"))
    ELSE IF validate_path(payload, "new_path") # Valid
    THEN Raise(validate_path(payload, "new_path"))
    ELSE IF ~HasMemory(rows, user, payload["old_path"])
    THEN Ret(MemError(<<"Memory not found">>))
    ELSE Write([op |-> "rename",
                id |-> get_memory(rows, user, payload["old_path"]).id,
                path |-> payload["new_path"]])

\* _handle_rename, up to db.commit
handle_rename(rows, user, payload) ==
    IF validate_path(payload, "old_path") # Valid
    THEN Raise(validate_path(payload, "old_path"))
    ELSE IF validate_path(payload, "new_path") # Valid
    THEN Raise(validate_path(payload, "new_path"))
    ELSE IF ~HasMemory(rows, user, payload["old_path"])
    THEN Ret(MemError(<<"Memory not found">>))
    ELSE IF HasMemory(rows, user, payload["new_path"])
    THEN Ret(MemError(<<"Destination already exists">>))
    ELSE Write([op |-> "rename",
                id |-> get_memory(rows, user, payload["old_path"]).id,
                path |-> payload["new_path"]])

\* character codes of the characters that occur in stored paths
CharCode(c) ==
    CASE c = "\n" -> 10 [] c = "-" -> 45 [] c = "." -> 46 [] c = "/" -> 47
      [] c = "_" -> 95 [] c = "a" -> 97 [] c = "b" -> 98 [] c = "d" -> 100
      [] c = "e" -> 101 [] c = "i" -> 105 [] c = "m" -> 109 [] c = "o" -> 111
      [] c = "r" -> 114 [] c = "s" -> 115 [] OTHER -> 120

\* a <= b in the order used by order_by(UserMemory.path.asc())
RECURSIVE TextLeq(_, _)
TextLeq(a, b) ==
    IF a = <<>> THEN TRUE
    ELSE IF b = <<>> THEN FALSE
    ELSE IF Head(a) = Head(b) THEN TextLeq(Tail(a), Tail(b))
    ELSE CharCode(Head(a)) < CharCode(Head(b))

\* get_all_memories_for_prompt: the owner's rows as {path, content}, by path
RECURSIVE SortedItems(_)
SortedItems(rs) ==
    IF rs = {} THEN <<>>
    ELSE LET r == CHOOSE x \in rs : \A y \in rs :
                      \/ (x.path # y.path /\ TextLeq(x.path, y.path))
                      \/ (x.path = y.path /\ x.id <= y.id)
         IN  <<[path |-> r.path, content |-> r.content]>> \o SortedItems(rs \ {r})

get_all_memories_for_prompt(rows, user) ==
    SortedItems({r \in rows : r.user_id = user})

\* a view that lists the owner's records whatever path is asked for
handle_view_listing(rows, user, payload) ==
    Ret(MemSuccess([k \in {"items"} |->
            [t |-> "list", v |-> get_all_memories_for_prompt(rows, user)]]))

\* _handle_view
handle_view(rows, user, payload) ==
    IF "path" \in DOMAIN payload /\ payload["path"] # <<>>
    THEN IF validate_path(payload, "path") # Valid
         THEN Raise(validate_path(payload, "path"))
         ELSE IF ~HasMemory(rows, user, payload["path"])
         THEN Ret(MemError(<<"Memory not found">>))
         ELSE Ret(MemSuccess(PathAndContent(
                     get_memory(rows, user, payload["path"]).path,
                     get_memory(rows, user, payload["path"]).content)))
    ELSE Ret(MemSuccess([k \in {"items"} |->
                [t |-> "list", v |-> get_all_memories_for_prompt(rows, user)]]))

\* db.commit() of an UPDATE or DELETE whose row is gone (StaleDataError)
CommitFails(rows, w) ==
    w.op \in {"update", "rename", "delete"} /\ \A r \in rows : r.id # w.id

\* a commit whose updates and renames leave updated_at as it was
CommitKeepsUpdatedAt(rows, w, now) ==
    CASE w.op = "insert" ->
            rows \cup {[id |-> NewId(rows), user_id |-> w.user_id, path |-> w.path,
                        content |-> w.content, created_at |-> now,
                        updated_at |-> now]}
      [] w.op = "update" ->
            {IF r.id = w.id THEN [r EXCEPT !.content = w.content] ELSE r : r \in rows}
      [] w.op = "rename" ->
            {IF r.id = w.id THEN [r EXCEPT !.path = w.path] ELSE r : r \in rows}
      [] w.op = "delete" -> {r \in rows : r.id # w.id}

\* db.commit(): the store after the pending write
Commit(rows, w, now) ==
    CASE w.op = "insert" ->
            rows \cup {[id |-> NewId(rows), user_id |-> w.user_id, path |-> w.path,
                        content |-> w.content, created_at |-> now,
                        updated_at |-> now]}
      [] w.op = "update" ->
            {IF r.id = w.id THEN [r EXCEPT !.content = w.content, !.updated_at = now]
                            ELSE r : r \in rows}
      [] w.op = "rename" ->
            {IF r.id = w.id THEN [r EXCEPT !.path = w.path, !.updated_at = now]
                            ELSE r : r \in rows}
      [] w.op = "delete" -> {r \in rows : r.id # w.id}

\* the envelope a handler returns after its commit: the row read back with
\* db.refresh(memory), or the deleted path
Committed(before, after, w) ==
    IF w.op = "delete" THEN MemSuccess([k \in {"path"} |-> Str(w.path)])
    ELSE LET id  == IF w.op = "insert" THEN NewId(before) ELSE w.id
             row == CHOOSE r \in after : r.id = id
         IN  MemSuccess(PathAndContent(row.path, row.content))

MemCommands ==
    {<<"view">>, <<"create">>, <<"str_replace">>, <<"insert">>, <<"delete">>,
     <<"rename">>}

\* (payload.get("command") or "").strip()
CommandOf(payload) == Strip(GetOr(payload, "command", <<>>))

\* the handler execute_command selects, run up to its write
Plan(rows, user, payload) ==
    CASE CommandOf(payload) = <<"view">> -> handle_view(rows, user, payload)
      [] CommandOf(payload) = <<"create">> -> handle_create(rows, user, payload)
      [] CommandOf(payload) = <<"str_replace">> -> handle_str_replace(rows, user, payload)
      [] CommandOf(payload) = <<"insert">> -> handle_insert(rows, user, payload)
      [] CommandOf(payload) = <<"delete">> -> handle_delete(rows, user, payload)
      [] CommandOf(payload) = <<"rename">> -> handle_rename(rows, user, payload)

MemOutcome(rows, returned, result, raised, audit) ==
    [rows |-> rows, returned |-> returned, result |-> result, raised |-> raised,
     audit |-> audit]

MemAuditEntry(user, payload, success, error) ==
    [tool_name |-> "Memory Tool", parameters |-> payload, success |-> success,
     error |-> error, user_id |-> user]

\* except Exception as exc (lines 52-61)
MemExcept(rows, user, payload, msg, sinkExc) ==
    IF sinkExc THEN MemOutcome(rows, FALSE, MemError(<<>>), SinkFailure, <<>>)
    ELSE MemOutcome(rows, TRUE, MemError(<<"Memory tool failed">>), <<>>,
                    <<MemAuditEntry(user, payload, FALSE, Str(msg))>>)

\* result["data"]["command"] = command (lines 49-50)
WithCommand(envelope, command) ==
    IF envelope.success /\ IsDict(envelope.data)
    THEN [envelope EXCEPT !.data = Dict(
             [k \in DOMAIN envelope.data.m \cup {"command"} |->
                 IF k = "command" THEN Str(command) ELSE envelope.data.m[k]])]
    ELSE envelope

\* lines 41-51: log the handler's result and return it
MemLogged(rows, user, payload, envelope, sinkTry, sinkExc) ==
    IF sinkTry THEN MemExcept(rows, user, payload, SinkFailure, sinkExc)
    ELSE MemOutcome(rows, TRUE, WithCommand(envelope, CommandOf(payload)), <<>>,
                    <<MemAuditEntry(user, payload, envelope.success, envelope.error)>>)

\* an execute_command whose insert commits the merged text and checks its
\* size afterwards
FinishCommandChecksSizeLate(rows, user, payload, plan, now, sinkTry, sinkExc) ==
    IF plan.kind = "raise"
    THEN IF /\ CommandOf(payload) = <<"insert">>
            /\ validate_path(payload, "path") = Valid
            /\ validate_content(payload, "content") = Valid
         THEN MemExcept(Commit(rows,
                               [op |-> "update",
                                id |-> get_memory(rows, user, payload["path"]).id,
                                content |-> merge_text(
                                    get_memory(rows, user, payload["path"]).content,
                                    payload["content"])],
                               now),
                        user, payload, plan.msg, sinkExc)
         ELSE MemExcept(rows, user, payload, plan.msg, sinkExc)
    ELSE IF plan.kind = "return"
    THEN MemLogged(rows, user, payload, plan.result, sinkTry, sinkExc)
    ELSE IF CommitFails(rows, plan.write)
    THEN MemExcept(rows, user, payload, <<"StaleDataError">>, sinkExc)
    ELSE MemLogged(Commit(rows, plan.write, now), user, payload,
                   Committed(rows, Commit(rows, plan.write, now), plan.write),
                   sinkTry, sinkExc)

\* the rest of execute_command once the handler has reached `plan`
FinishCommand(rows, user, payload, plan, now, sinkTry, sinkExc) ==
    IF plan.kind = "raise" THEN MemExcept(rows, user, payload, plan.msg, sinkExc)
    ELSE IF plan.kind = "return"
    THEN MemLogged(rows, user, payload, plan.result, sinkTry, sinkExc)
    ELSE IF CommitFails(rows, plan.write)
    THEN MemExcept(rows, user, payload, <<"StaleDataError">>, sinkExc)
    ELSE MemLogged(Commit(rows, plan.write, now), user, payload,
                   Committed(rows, Commit(rows, plan.write, now), plan.write),
                   sinkTry, sinkExc)

\* MemoryToolHandler.execute_command
execute_command(rows, user, payload, now, sinkTry, sinkExc) ==
    IF CommandOf(payload) \notin MemCommands
    THEN MemOutcome(rows, TRUE, MemError(<<"Invalid command">>), <<>>, <<>>)
    ELSE FinishCommand(rows, user, payload, Plan(rows, user, payload), now,
                       sinkTry, sinkExc)

(***************************************************************************)
(* Memory commands issued one at a time                                    *)
(***************************************************************************)
Users == {"u1", "u2"}

PA == MEM_PREFIX \o <<"a">> \o MD_SUFFIX
PB == MEM_PREFIX \o <<"b">> \o MD_SUFFIX
P_DOTS == MEM_PREFIX \o <<".", ".", "/", "a">> \o MD_SUFFIX

\* the dict with the given (key, value) pairs
MakeDict(pairs) ==
    [k \in {pr[1] : pr \in pairs} |-> (CHOOSE pr \in pairs : pr[1] = k)[2]]

Payload(command, pairs) == MakeDict({<<"command", <<command>> >>} \cup pairs)

CreateContents ==
    {<<>>, <<"a">>, <<"a", "a", "a">>, <<FILL, FILL>>, <<FILL, FILL, "a">>}

CreatePayloads ==
    {Payload("create", {<<"path", PA>>, <<"content", c>>}) : c \in CreateContents}
        \cup {Payload("create", {<<"path", p>>, <<"content", <<"a">> >>}) :
                 p \in {PB, P_DOTS}}
        \cup {Payload("create", {<<"path", PA>>})}

ReplacePairs ==
    {<< <<"a">>, <<"b">> >>, << <<"a", "a">>, <<"b">> >>, << <<"b">>, <<"a">> >>,
     << <<>>, <<"b">> >>, << <<"a">>, <<FILL, FILL, "b">> >>}

ReplacePayloads ==
    {Payload("str_replace", {<<"path", PA>>, <<"old_str", pr[1]>>, <<"new_str", pr[2]>>}) :
        pr \in ReplacePairs}
        \cup {Payload("str_replace", {<<"path", P_DOTS>>, <<"old_str", <<"a">> >>,
                                      <<"new_str", <<"b">> >>}),
              Payload("str_replace", {<<"path", PA>>, <<"old_str", <<"a">> >>})}

InsertPayloads ==
    {Payload("insert", {<<"path", PA>>, <<"content", c>>, <<"position", <<pos>> >>}) :
        c \in {<<>>, <<"b">>, <<"\n", "b">>, <<"b", "\n">>}, pos \in {"start", "end"}}
        \cup {Payload("insert", {<<"path", PA>>, <<"content", <<"b">> >>,
                                 <<"position", <<"middle">> >>}),
              Payload("insert", {<<"path", PA>>, <<"content", <<"b">> >>})}

DeletePayloads == {Payload("delete", {<<"path", p>>}) : p \in {PA, PB, P_DOTS}}

RenamePayloads ==
    {Payload("rename", {<<"old_path", pr[1]>>, <<"new_path", pr[2]>>}) :
        pr \in {<<PA, PB>>, <<PA, PA>>, <<PB, PA>>, <<PA, P_DOTS>>}}

ViewPayloads ==
    {Payload("view", {}), Payload("view", {<<"path", PA>>}),
     Payload("view", {<<"path", PB>>})}

OtherPayloads == {Payload(" create ", {<<"path", PB>>, <<"content", <<"a">> >>}),
                  Payload("drop", {}), MakeDict({})}

MemPayloads ==
    CreatePayloads \cup ReplacePayloads \cup InsertPayloads \cup DeletePayloads
        \cup RenamePayloads \cup ViewPayloads \cup OtherPayloads

\* the second user issues one payload of each command
SecondUserPayloads ==
    {Payload("create", {<<"path", PA>>, <<"content", <<"a", "a", "a">> >>}),
     Payload("str_replace", {<<"path", PA>>, <<"old_str", <<"a", "a">> >>,
                             <<"new_str", <<"b">> >>}),
     Payload("insert", {<<"path", PA>>, <<"content", <<"b">> >>,
                        <<"position", <<"end">> >>}),
     Payload("delete", {<<"path", PA>>}),
     Payload("rename", {<<"old_path", PA>>, <<"new_path", PB>>}),
     Payload("view", {}),
     Payload("view", {<<"path", PA>>})}

UserPayloads(user) == IF user = "u1" THEN MemPayloads ELSE SecondUserPayloads

NoCall == [user |-> "none", payload |-> MakeDict({})]
NoOutcome == [returned |-> FALSE, result |-> MemError(<<>>), raised |-> <<"<not called>">>,
              audit |-> <<>>]
NoLast == [user |-> "none", payload |-> MakeDict({}), returned |-> FALSE,
           result |-> MemError(<<>>)]

MemInit ==
    /\ mem_rows = {}
    /\ mem_now = 0
    /\ mem_call = NoCall
    /\ mem_out = NoOutcome
    /\ mem_prev = {}
    /\ mem_last = NoLast

MemParked ==
    /\ mem_rows = {}
    /\ mem_now = -1
    /\ mem_call = NoCall
    /\ mem_out = NoOutcome
    /\ mem_prev = {}
    /\ mem_last = NoLast

\* a caller runs execute_command(db, user, payload) to completion
MemCommand ==
    /\ mem_now < MaxCommands
    /\ \E user \in Users : \E payload \in UserPayloads(user) :
          \E out \in {execute_command(mem_rows, user, payload, mem_now + 1,
                                      FALSE, FALSE)} :
              /\ mem_rows' = out.rows
              /\ mem_out' = [returned |-> out.returned, result |-> out.result,
                             raised |-> out.raised, audit |-> out.audit]
              /\ mem_call' = [user |-> user, payload |-> payload]
    /\ mem_prev' = mem_rows
    /\ mem_last' = [user |-> mem_call.user, payload |-> mem_call.payload,
                    returned |-> mem_out.returned, result |-> mem_out.result]
    /\ mem_now' = mem_now + 1
    /\ UNCHANGED <<pathVars, toolVars, concVars, retryVars, fileVars>>

\* C10: after any sequence of memory commands run one at a time, the store
\* holds at most one record per (owner, path).
C10_UniquePerOwnerPath ==
    \A r \in mem_rows, q \in mem_rows :
        (r.user_id = q.user_id /\ r.path = q.path) => r = q

\* a create has put a second record next to an already edited one of the same
\* owner
C10_Witness ==
    /\ CommandOf(mem_call.payload) = <<"create">>
    /\ mem_out.result.success
    /\ Cardinality({r \in mem_rows : r.user_id = mem_call.user}) = 2
    /\ \E r \in mem_rows : r.created_at < r.updated_at

(***************************************************************************)
(* Properties of single memory commands                                    *)
(***************************************************************************)
\* the latest call, its owner, and what it returned
LastPayload == mem_call.payload
LastUser == mem_call.user
LastIs(command) == CommandOf(LastPayload) = <<command>>
LastResult == mem_out.result
FailedWith(message) == mem_out.returned /\ LastResult = MemError(message)
StoreUnchanged == mem_rows = mem_prev

\* the latest call names, under `key`, a well-formed path that held a record
\* of the caller when the call started
TargetsRecord(key) ==
    /\ key \in DOMAIN LastPayload
    /\ validate_path(LastPayload, key) = Valid
    /\ HasMemory(mem_prev, LastUser, LastPayload[key])

\* that record before the call, and the same row after it
RecordBefore(key) == get_memory(mem_prev, LastUser, LastPayload[key])
RowsAfter(key) == {r \in mem_rows : r.id = RecordBefore(key).id}

\* the positions at which `old` matches in `s`
MatchPositions(s, old) ==
    {i \in 1..(Len(s) - Len(old) + 1) : SubSeq(s, i, i + Len(old) - 1) = old}

\* `s` with the match of `old` at position i replaced by `new`
ReplaceAt(s, i, old, new) ==
    SubSeq(s, 1, i - 1) \o new \o SubSeq(s, i + Len(old), Len(s))

\* C11: str_replace on an existing record fails with "Old string not found"
\* when old_str occurs nowhere, with "Old string is not unique" when it occurs
\* more than once, and when it occurs exactly once stores the content with
\* that occurrence replaced by new_str.
C11_StrReplaceCases ==
    (/\ LastIs("str_replace") /\ TargetsRecord("path")
     /\ {"old_str", "new_str"} \subseteq DOMAIN LastPayload) =>
        LET old == LastPayload["old_str"]
            new == LastPayload["new_str"]
            pos == MatchPositions(RecordBefore("path").content, old)
        IN  /\ pos = {} => FailedWith(<<"Old string not found">>) /\ StoreUnchanged
            /\ Cardinality(pos) > 1 =>
                   FailedWith(<<"Old string is not unique">>) /\ StoreUnchanged
            /\ Cardinality(pos) = 1 =>
                   /\ mem_out.returned /\ LastResult.success
                   /\ \A r \in RowsAfter("path") :
                          r.content = ReplaceAt(RecordBefore("path").content,
                                                CHOOSE i \in pos : TRUE, old, new)
                   /\ RowsAfter("path") # {}

\* the call before the latest was the same command by the same owner, and it
\* returned success
RepeatsSuccessful(command) ==
    /\ LastIs(command)
    /\ mem_last.user = LastUser /\ mem_last.payload = LastPayload
    /\ mem_last.returned /\ mem_last.result.success

\* C12: when a str_replace has succeeded and old_str does not occur in the
\* content it produced, the same str_replace issued again fails with "Old
\* string not found" and changes nothing.
C12_RepeatedReplaceNotFound ==
    (/\ RepeatsSuccessful("str_replace")
     /\ MatchPositions(RecordBefore("path").content, LastPayload["old_str"]) = {})
        => FailedWith(<<"Old string not found">>) /\ StoreUnchanged

\* a str_replace was repeated on the content it had produced, which no
\* longer holds old_str, and was refused
C12_Witness ==
    /\ RepeatsSuccessful("str_replace")
    /\ MatchPositions(RecordBefore("path").content, LastPayload["old_str"]) = {}
    /\ Contains(RecordBefore("path").content, LastPayload["new_str"])
    /\ FailedWith(<<"Old string not found">>)

\* the content carried by a returned envelope, if it carries one
HasContent(envelope) ==
    envelope.success /\ IsDict(envelope.data) /\ "content" \in DOMAIN envelope.data.m
ContentOf(envelope) == envelope.data.m["content"]

\* the latest call is a view of the path that the call before it, by the
\* same owner, created
ViewsJustCreated ==
    /\ LastIs("view") /\ "path" \in DOMAIN LastPayload
    /\ CommandOf(mem_last.payload) = <<"create">>
    /\ mem_last.returned /\ mem_last.result.success
    /\ mem_last.user = LastUser
    /\ mem_last.payload["path"] = LastPayload["path"]

\* C13: a view that directly follows a successful create of the same path by
\* the same owner succeeds, and its content is the content create returned
\* and the content that was submitted.
C13_CreateViewRoundTrip ==
    ViewsJustCreated =>
        /\ mem_out.returned /\ HasContent(LastResult) /\ HasContent(mem_last.result)
        /\ ContentOf(LastResult) = ContentOf(mem_last.result)
        /\ ContentOf(LastResult) = Str(mem_last.payload["content"])

\* a record created next to another record of the same owner was viewed
C13_Witness ==
    /\ ViewsJustCreated
    /\ HasContent(LastResult)
    /\ ContentOf(LastResult) = Str(mem_last.payload["content"])
    /\ Cardinality({r \in mem_rows : r.user_id = LastUser}) = 2

\* the latest call is a create with a well-formed path and content
WellFormedCreate ==
    /\ LastIs("create")
    /\ validate_path(LastPayload, "path") = Valid
    /\ validate_content(LastPayload, "content") = Valid

\* C14: a create with a valid path and content fails with "Memory already
\* exists" and inserts nothing when the owner already has a record at the
\* path, and otherwise succeeds and inserts exactly one record, holding the
\* owner, the path and the content.
C14_CreateExistsOrInserts ==
    WellFormedCreate =>
        IF HasMemory(mem_prev, LastUser, LastPayload["path"])
        THEN FailedWith(<<"Memory already exists">>) /\ StoreUnchanged
        ELSE /\ mem_out.returned /\ LastResult.success
             /\ mem_prev \subseteq mem_rows
             /\ Cardinality(mem_rows \ mem_prev) = 1
             /\ \A r \in mem_rows \ mem_prev :
                    /\ r.user_id = LastUser
                    /\ r.path = LastPayload["path"]
                    /\ r.content = LastPayload["content"]

\* a create was refused because the owner's record at the path was already
\* there, while a create of the same path by another owner had gone through
C14_Witness ==
    /\ WellFormedCreate
    /\ FailedWith(<<"Memory already exists">>)
    /\ \E r \in mem_rows, q \in mem_rows : r.path = q.path /\ r.user_id # q.user_id

\* the records of an owner
Owned(rows, user) == {r \in rows : r.user_id = user}

\* the latest call is a rename between two well-formed paths
WellFormedRename ==
    /\ LastIs("rename")
    /\ validate_path(LastPayload, "old_path") = Valid
    /\ validate_path(LastPayload, "new_path") = Valid

\* C15: a rename between valid paths fails with "Memory not found" when the
\* source is absent and with "Destination already exists" when the
\* destination is occupied (old_path = new_path included); otherwise the
\* record leaves old_path and is at new_path with the same content, and the
\* owner has as many records as before.
C15_RenameRekeys ==
    WellFormedRename =>
        LET old == LastPayload["old_path"]
            new == LastPayload["new_path"]
        IN  IF ~HasMemory(mem_prev, LastUser, old)
            THEN FailedWith(<<"Memory not found">>) /\ StoreUnchanged
            ELSE IF HasMemory(mem_prev, LastUser, new)
            THEN FailedWith(<<"Destination already exists">>) /\ StoreUnchanged
            ELSE /\ mem_out.returned /\ LastResult.success
                 /\ ~HasMemory(mem_rows, LastUser, old)
                 /\ HasMemory(mem_rows, LastUser, new)
                 /\ \A r \in Matching(mem_rows, LastUser, new) :
                        /\ r.content = RecordBefore("old_path").content
                        /\ r.id = RecordBefore("old_path").id
                 /\ Cardinality(Owned(mem_rows, LastUser))
                       = Cardinality(Owned(mem_prev, LastUser))

\* a record was renamed while another owner kept a record at the old path
C15_Witness ==
    /\ WellFormedRename
    /\ mem_out.returned /\ LastResult.success
    /\ HasMemory(mem_rows, LastUser, LastPayload["new_path"])
    /\ ~HasMemory(mem_rows, LastUser, LastPayload["old_path"])
    /\ \E r \in mem_rows : r.user_id # LastUser /\ r.path = LastPayload["old_path"]

\* the key under which a command names the record it reads
SourceKey == IF LastIs("rename") THEN "old_path" ELSE "path"

\* the latest call is a view, str_replace, insert, delete or rename whose
\* parameters pass the checks that precede the lookup of the record
WellFormedAccess ==
    /\ SourceKey \in DOMAIN LastPayload
    /\ validate_path(LastPayload, SourceKey) = Valid
    /\ \/ LastIs("view") \/ LastIs("delete")
       \/ LastIs("str_replace") /\ {"old_str", "new_str"} \subseteq DOMAIN LastPayload
       \/ /\ LastIs("insert")
          /\ validate_content(LastPayload, "content") = Valid
          /\ "position" \in DOMAIN LastPayload
          /\ LastPayload["position"] \in {<<"start">>, <<"end">>}
       \/ LastIs("rename") /\ validate_path(LastPayload, "new_path") = Valid

\* the latest call put a record at (user, path): a successful create of the
\* path or a successful rename to it
PutsRecordAt(user, path) ==
    /\ LastUser = user /\ mem_out.returned /\ LastResult.success
    /\ \/ LastIs("create") /\ LastPayload["path"] = path
       \/ LastIs("rename") /\ LastPayload["new_path"] = path

\* C16: a delete of a path without a record fails with "Memory not found"; a
\* successful delete removes the record; a view, str_replace, insert, delete
\* or rename-from on a path without a record fails with "Memory not found";
\* and a path without a record gets one only by a create or a rename to it.
C16_DeletedStaysAbsent ==
    /\ (LastIs("delete") /\ mem_out.returned /\ LastResult.success) =>
           /\ ~HasMemory(mem_rows, LastUser, LastPayload["path"])
           /\ mem_rows = mem_prev \ Matching(mem_prev, LastUser, LastPayload["path"])
    /\ (WellFormedAccess /\ ~HasMemory(mem_prev, LastUser, LastPayload[SourceKey])) =>
           FailedWith(<<"Memory not found">>) /\ StoreUnchanged
    /\ \A r \in mem_rows :
           ~HasMemory(mem_prev, r.user_id, r.path) => PutsRecordAt(r.user_id, r.path)

\* an insert into a path right after the owner deleted its record was refused
C16_Witness ==
    /\ CommandOf(mem_last.payload) = <<"delete">>
    /\ mem_last.returned /\ mem_last.result.success
    /\ mem_last.user = LastUser
    /\ LastIs("insert") /\ WellFormedAccess
    /\ LastPayload["path"] = mem_last.payload["path"]
    /\ FailedWith(<<"Memory not found">>)

\* the separator the insert contract asks for between two texts
Separator(first, second) ==
    IF /\ first # <<>> /\ second # <<>>
       /\ first[Len(first)] # "\n" /\ second[1] # "\n"
    THEN <<"\n">> ELSE <<>>

Joined(first, second) == first \o Separator(first, second) \o second

\* the content an insert is asked to produce from the record it targets
InsertTarget ==
    IF LastPayload["position"] = <<"start">>
    THEN Joined(LastPayload["content"], RecordBefore("path").content)
    ELSE Joined(RecordBefore("path").content, LastPayload["content"])

\* C17: an insert whose position is neither "start" nor "end" fails; an
\* insert with a valid position into an existing record stores the inserted
\* and the previous content in the requested order, with one newline between
\* them exactly when both are non-empty, the first does not end with a
\* newline and the second does not begin with one (the result being within
\* the size ceiling).
C17_InsertMerges ==
    /\ (/\ LastIs("insert")
        /\ \/ "position" \notin DOMAIN LastPayload
           \/ LastPayload["position"] \notin {<<"start">>, <<"end">>}) =>
           mem_out.returned /\ ~LastResult.success /\ StoreUnchanged
    /\ (/\ LastIs("insert") /\ WellFormedAccess /\ TargetsRecord("path")
        /\ ByteLen(InsertTarget) <= MAX_CONTENT_BYTES) =>
           /\ mem_out.returned /\ LastResult.success
           /\ RowsAfter("path") # {}
           /\ \A r \in RowsAfter("path") : r.content = InsertTarget

\* an insert at the start put a newline between its text and the old content
C17_Witness ==
    /\ LastIs("insert") /\ WellFormedAccess /\ TargetsRecord("path")
    /\ LastPayload["position"] = <<"start">>
    /\ mem_out.returned /\ LastResult.success
    /\ RecordBefore("path").content # <<>>
    /\ \E r \in RowsAfter("path") :
           r.content = LastPayload["content"] \o <<"\n">> \o RecordBefore("path").content

TooLarge(content) == ByteLen(content) > MAX_CONTENT_BYTES

\* the content the latest call would store, were there no size ceiling
WouldStore ==
    IF LastIs("create") THEN LastPayload["content"]
    ELSE IF LastIs("insert") THEN InsertTarget
    ELSE Replace(RecordBefore("path").content, LastPayload["old_str"],
                 LastPayload["new_str"])

\* the latest call is a create, str_replace or insert that passes every check
\* but the size of what it would store
ReachesSizeCheck ==
    \/ LastIs("create") /\ validate_path(LastPayload, "path") = Valid
          /\ "content" \in DOMAIN LastPayload
          /\ ~HasMemory(mem_prev, LastUser, LastPayload["path"])
    \/ LastIs("insert") /\ WellFormedAccess /\ TargetsRecord("path")
    \/ LastIs("str_replace") /\ WellFormedAccess /\ TargetsRecord("path")
          /\ Count(RecordBefore("path").content, LastPayload["old_str"]) = 1

\* C18: no stored record holds more than MAX_CONTENT_BYTES bytes, and a
\* create, str_replace or insert whose resulting content would exceed the
\* ceiling fails and leaves the store as it was.
C18_ContentWithinCeiling ==
    /\ \A r \in mem_rows : ~TooLarge(r.content)
    /\ (ReachesSizeCheck /\ TooLarge(WouldStore)) =>
           mem_out.returned /\ ~LastResult.success /\ StoreUnchanged

\* an insert of one character into a record that is exactly at the ceiling
\* was refused
C18_Witness ==
    /\ ReachesSizeCheck /\ TooLarge(WouldStore)
    /\ LastIs("insert") /\ ByteLen(RecordBefore("path").content) = MAX_CONTENT_BYTES
    /\ mem_out.returned /\ ~LastResult.success /\ StoreUnchanged

\* the latest call was rejected by _validate_path or _validate_content, and
\* the message of the ValueError it raised
RejectedByValidation ==
    /\ CommandOf(LastPayload) \in MemCommands
    /\ Plan(mem_prev, LastUser, LastPayload).kind = "raise"
ValidationMessage == Plan(mem_prev, LastUser, LastPayload).msg

\* C19: when validation rejects a memory command, the envelope returned by
\* execute_command carries the validation error's own message as its error.
C19_ValidationSurfacedVerbatim ==
    RejectedByValidation =>
        /\ mem_out.returned /\ ~LastResult.success
        /\ LastResult.error = Str(ValidationMessage)

Succeeded == mem_out.returned /\ LastResult.success

Ids(rows) == {r.id : r \in rows}

\* the rows the latest call inserted
Inserted == {r \in mem_rows : r.id \notin Ids(mem_prev)}

\* C29: create stores a record whose created_at equals its updated_at; a
\* successful str_replace, insert or rename sets the record's updated_at to
\* the time of the call and keeps its created_at; view leaves the store as it
\* was.
C29_Timestamps ==
    /\ (LastIs("create") /\ Succeeded) =>
           /\ Inserted # {}
           /\ \A r \in Inserted :
                  /\ r.user_id = LastUser /\ r.path = LastPayload["path"]
                  /\ r.created_at = r.updated_at
    /\ ((LastIs("str_replace") \/ LastIs("insert") \/ LastIs("rename")) /\ Succeeded) =>
           /\ RowsAfter(SourceKey) # {}
           /\ \A r \in RowsAfter(SourceKey) :
                  /\ r.updated_at = mem_now
                  /\ r.created_at = RecordBefore(SourceKey).created_at
    /\ LastIs("view") => StoreUnchanged

\* a record made by an earlier command was renamed
C29_Witness ==
    /\ LastIs("rename") /\ Succeeded
    /\ \E r \in RowsAfter("old_path") :
           r.updated_at = mem_now /\ r.created_at < r.updated_at

\* C30: every execute_command call writes exactly one audit entry, whose
\* success flag is that of the returned envelope, and every success envelope
\* names the invoked command in its data.
C30_OneAuditEntryPerCommand ==
    mem_call # NoCall =>
        /\ mem_out.returned
        /\ Len(mem_out.audit) = 1
        /\ mem_out.audit[1].success = LastResult.success
        /\ LastResult.success =>
               /\ IsDict(LastResult.data)
               /\ Get(LastResult.data.m, "command") = Str(CommandOf(LastPayload))

\* the records of the other owners
Foreign(rows) == {r \in rows : r.user_id # LastUser}

\* C34: a command run for one owner creates, changes, renames and deletes no
\* record of another owner, and a view it answers shows the caller's own
\* records only, also where both owners hold a record at the same path.
C34_OwnerIsolation ==
    mem_call # NoCall =>
        /\ Foreign(mem_rows) = Foreign(mem_prev)
        /\ (LastIs("view") /\ Succeeded) =>
               LET data == LastResult.data.m
                   own  == Owned(mem_prev, LastUser)
               IN  IF "items" \in DOMAIN data
                   THEN /\ Len(data["items"].v) = Cardinality(own)
                        /\ \A i \in 1..Len(data["items"].v) :
                               \E r \in own :
                                   /\ r.path = data["items"].v[i].path
                                   /\ r.content = data["items"].v[i].content
                   ELSE \E r \in own :
                            /\ r.path = LastPayload["path"]
                            /\ data["path"] = Str(r.path)
                            /\ data["content"] = Str(r.content)

\* two owners hold different contents at one path, and one of them viewed it
C34_Witness ==
    /\ LastIs("view") /\ Succeeded /\ "path" \in DOMAIN LastPayload
    /\ \E r \in Owned(mem_prev, LastUser) : \E q \in Foreign(mem_prev) :
           /\ r.path = LastPayload["path"] /\ q.path = r.path
           /\ q.content # r.content
           /\ LastResult.data.m["content"] = Str(r.content)

\* C35: a memory command that returns success = false leaves the record
\* store as it was: the same records, contents and timestamps.
C35_FailureChangesNothing ==
    (mem_out.returned /\ ~LastResult.success) => StoreUnchanged

\* a rename onto an occupied destination was refused
C35_Witness ==
    /\ LastIs("rename") /\ FailedWith(<<"Destination already exists">>)
    /\ Cardinality(Owned(mem_prev, LastUser)) >= 2
    /\ StoreUnchanged

\* C36: a str_replace whose non-empty old_str matches at two or more
\* positions of the content, overlapping or not, fails with "Old string is
\* not unique" and leaves the content unchanged.
C36_OverlappingMatchesAmbiguous ==
    (/\ LastIs("str_replace") /\ TargetsRecord("path")
     /\ {"old_str", "new_str"} \subseteq DOMAIN LastPayload
     /\ LastPayload["old_str"] # <<>>
     /\ Cardinality(MatchPositions(RecordBefore("path").content,
                                   LastPayload["old_str"])) >= 2)
        => FailedWith(<<"Old string is not unique">>) /\ StoreUnchanged

(***************************************************************************)
(* Two requests running execute_command at the same time, each on its own  *)
(* database session: a handler reads, computes, and later commits          *)
(***************************************************************************)
Procs == {1, 2}
ConcUser == "u1"

ConcPayloads ==
    {Payload("str_replace", {<<"path", PA>>, <<"old_str", pr[1]>>, <<"new_str", pr[2]>>}) :
        pr \in {<< <<"a">>, <<"b">> >>, << <<"a", "a">>, <<"b">> >>,
                << <<"b">>, <<"a">> >>}}
        \cup {Payload("insert", {<<"path", PA>>, <<"content", c>>,
                                 <<"position", <<pos>> >>}) :
                 c \in {<<"b">>, <<"\n", "b">>}, pos \in {"start", "end"}}
        \cup {Payload("create", {<<"path", PA>>, <<"content", c>>}) :
                 c \in {<<"a">>, <<"b">>}}

\* the stores the two requests may find: empty, or one record left by create
ConcStores ==
    {{}} \cup {{[id |-> 1, user_id |-> ConcUser, path |-> PA, content |-> c,
                 created_at |-> 0, updated_at |-> 0]} :
                  c \in {<<"a">>, <<"a", "a", "a">>, <<"b", "a">>}}

ConcInit ==
    /\ mem_rows \in ConcStores
    /\ mem_prev = mem_rows
    /\ mem_last = NoLast
    /\ mem_now = 0
    /\ mem_call = NoCall
    /\ mem_out = NoOutcome
    /\ cc_cmd \in [Procs -> ConcPayloads]
    /\ cc_pc = [p \in Procs |-> "start"]
    /\ cc_plan = [p \in Procs |-> Ret(MemError(<<>>))]
    /\ cc_out = [p \in Procs |-> NoOutcome.result]

ConcParked ==
    /\ cc_cmd = [p \in Procs |-> MakeDict({})]
    /\ cc_pc = [p \in Procs |-> "parked"]
    /\ cc_plan = [p \in Procs |-> Ret(MemError(<<>>))]
    /\ cc_out = [p \in Procs |-> NoOutcome.result]

\* a handler validates, queries the record and computes its write; a handler
\* that has nothing to write returns here
ConcRead(p) ==
    /\ cc_pc[p] = "start"
    /\ LET plan == Plan(mem_rows, ConcUser, cc_cmd[p])
       IN  IF plan.kind = "write"
           THEN /\ cc_plan' = [cc_plan EXCEPT ![p] = plan]
                /\ cc_pc' = [cc_pc EXCEPT ![p] = "commit"]
                /\ UNCHANGED cc_out
           ELSE /\ cc_out' = [cc_out EXCEPT ![p] =
                       FinishCommand(mem_rows, ConcUser, cc_cmd[p], plan,
                                     mem_now + 1, FALSE, FALSE).result]
                /\ cc_pc' = [cc_pc EXCEPT ![p] = "done"]
                /\ UNCHANGED cc_plan
    /\ UNCHANGED <<cc_cmd, memVars, pathVars, toolVars, retryVars, fileVars>>

\* db.commit() and the return of the envelope.  The user_memories table is
\* declared outside this code: it may or may not carry a unique constraint on
\* (user_id, path), and with one the INSERT of a second row fails in commit
\* (IntegrityError), which execute_command catches.
ConcCommit(p) ==
    /\ cc_pc[p] = "commit"
    /\ \E constrained \in BOOLEAN :
          LET w   == cc_plan[p].write
              out == IF /\ constrained /\ w.op = "insert"
                        /\ HasMemory(mem_rows, w.user_id, w.path)
                     THEN MemExcept(mem_rows, ConcUser, cc_cmd[p],
                                    <<"IntegrityError">>, FALSE)
                     ELSE FinishCommand(mem_rows, ConcUser, cc_cmd[p], cc_plan[p],
                                        mem_now + 1, FALSE, FALSE)
          IN  /\ mem_rows' = out.rows
              /\ cc_out' = [cc_out EXCEPT ![p] = out.result]
    /\ mem_now' = mem_now + 1
    /\ cc_pc' = [cc_pc EXCEPT ![p] = "done"]
    /\ UNCHANGED <<cc_cmd, cc_plan, mem_call, mem_out, mem_prev, mem_last, pathVars,
                   toolVars, retryVars, fileVars>>

ConcNext == \E p \in Procs : ConcRead(p) \/ ConcCommit(p)

AllDone == \A p \in Procs : cc_pc[p] = "done"
IsCommand(p, command) == CommandOf(cc_cmd[p]) = <<command>>
InitialContent == (CHOOSE r \in mem_prev : TRUE).content
FinalContent == (CHOOSE r \in mem_rows : TRUE).content

\* C1: two concurrent str_replace calls with the same old_str/new_str on a
\* record where old_str occurs exactly once: exactly one returns success and
\* the stored content is the result of a single replacement.
C1_ExactlyOneReplaceSucceeds ==
    (/\ AllDone
     /\ IsCommand(1, "str_replace") /\ cc_cmd[1] = cc_cmd[2]
     /\ mem_prev # {}
     /\ Count(InitialContent, cc_cmd[1]["old_str"]) = 1)
        => /\ Cardinality({p \in Procs : cc_out[p].success}) = 1
           /\ FinalContent =
                 Replace(InitialContent, cc_cmd[1]["old_str"], cc_cmd[1]["new_str"])

\* the content an edit command makes of a content
EditOf(payload, content) ==
    IF CommandOf(payload) = <<"str_replace">>
    THEN Replace(content, payload["old_str"], payload["new_str"])
    ELSE IF payload["position"] = <<"start">>
    THEN merge_text(payload["content"], content)
    ELSE merge_text(content, payload["content"])

\* C2: when two concurrent edits (str_replace or insert) of one record both
\* return success, the stored content reflects both edits, in one order or
\* the other.
C2_NoLostUpdate ==
    (/\ AllDone
     /\ \A p \in Procs : IsCommand(p, "str_replace") \/ IsCommand(p, "insert")
     /\ \A p \in Procs : cc_out[p].success)
        => FinalContent \in {EditOf(cc_cmd[2], EditOf(cc_cmd[1], InitialContent)),
                             EditOf(cc_cmd[1], EditOf(cc_cmd[2], InitialContent))}

\* C33: two concurrent create calls for one owner and one free path: exactly
\* one succeeds, the other fails with "Memory already exists", and the store
\* ends with exactly one record at that path.
C33_ExactlyOneCreateSucceeds ==
    (/\ AllDone
     /\ \A p \in Procs : IsCommand(p, "create")
     /\ cc_cmd[1]["path"] = cc_cmd[2]["path"]
     /\ mem_prev = {})
        => /\ Cardinality({p \in Procs : cc_out[p].success}) = 1
           /\ \E p \in Procs : cc_out[p] = MemError(<<"Memory already exists">>)
           /\ Cardinality(Matching(mem_rows, ConcUser, cc_cmd[1]["path"])) = 1

(***************************************************************************)
(* Properties of execute_tool                                              *)
(***************************************************************************)
Done == tm_pc = "done"
Trace == tm_out.trace
ExecutorInvoked == Trace.exec # <<>>

\* C3: every returned envelope has success = true only with a null error and
\* success = false only with a non-null error.
C3_EnvelopeConsistent ==
    (Done /\ tm_out.returned) =>
        /\ (tm_out.result.success => tm_out.result.error = None)
        /\ (~tm_out.result.success => tm_out.result.error # None)

\* the exception raised by path validation, argument building or the
\* executor during the call, if one was
StageRaised ==
    \/ \E i \in 1..Len(Trace.validator) : ~Trace.validator[i].ok
    \/ (Trace.built /\ ~build_args(tm_name, tm_params).ok)
    \/ (ExecutorInvoked /\ Trace.exec[1].outcome.kind = "raise")

StageMessage ==
    IF \E i \in 1..Len(Trace.validator) : ~Trace.validator[i].ok
    THEN IF Tools[tm_name].validate = "write"
         THEN validate_write_path(Trace.validator[1].path).error
         ELSE validate_read_path(Trace.validator[1].path).error
    ELSE IF ~ExecutorInvoked THEN build_args(tm_name, tm_params).error
    ELSE Trace.exec[1].outcome.msg

\* C4: an exception raised by validation, argument building or the executor
\* becomes a failed envelope carrying the exception's message, and nothing
\* propagates to the caller.
C4_FaultsBecomeEnvelopes ==
    (Done /\ tm_name \in ToolNames /\ tm_name # "Set UI Theme" /\ StageRaised) =>
        /\ tm_out.returned
        /\ ~tm_out.result.success
        /\ tm_out.result.error = Str(StageMessage)

\* C4 (amended): an exception raised by validation, argument building or the
\* executor becomes a failed envelope whose error is the exception's message,
\* or "Unknown error" when that message is empty, and nothing propagates to
\* the caller.
C4_FaultsBecomeEnvelopesOrUnknown ==
    (Done /\ tm_name \in ToolNames /\ tm_name # "Set UI Theme" /\ StageRaised) =>
        /\ tm_out.returned
        /\ ~tm_out.result.success
        /\ tm_out.result.error =
              Str(IF StageMessage = <<>> THEN <<"Unknown error">> ELSE StageMessage)

\* the executor raised an exception with an empty message and the caller
\* received the "Unknown error" envelope
C4_Witness ==
    /\ Done /\ tm_name \in ToolNames /\ ExecutorInvoked
    /\ Trace.exec[1].outcome.kind = "raise"
    /\ Trace.exec[1].outcome.msg = <<>>
    /\ tm_out.returned
    /\ ~tm_out.result.success
    /\ tm_out.result.error = Str(<<"Unknown error">>)

\* the parameter whose value the argument builder places as a path argument
BuilderPathKey(name) == IF name = "Search Files" THEN "directory" ELSE "path"

\* C7: when the executor runs for a read- or write-classified tool, the path
\* parameter in its argument list was passed to the validator and accepted
\* in the same call, and no validation of the call failed.
C7_ValidatedBeforeExecutor ==
    (Done /\ tm_name \in ToolNames /\ ExecutorInvoked
        /\ Tools[tm_name].validate \in {"read", "write"}) =>
        /\ \A i \in 1..Len(Trace.validator) : Trace.validator[i].ok
        /\ BuilderPathKey(tm_name) \in DOMAIN tm_params =>
              \E i \in 1..Len(Trace.validator) :
                  /\ Trace.validator[i].path = tm_params[BuilderPathKey(tm_name)]
                  /\ Trace.validator[i].ok

ContentTools == {"Write File", "Create Note", "Update Note", "Update Scratchpad"}

\* C8: no audit entry of a content-carrying tool holds the caller's content
\* value, whether the call succeeded, failed or raised.
C8_ContentNeverLogged ==
    (Done /\ tm_name \in ContentTools /\ "content" \in DOMAIN tm_params) =>
        \A i \in 1..Len(Trace.audit) :
            \/ "content" \notin DOMAIN Trace.audit[i].parameters
            \/ Trace.audit[i].parameters["content"] # tm_params["content"]

\* C9: when the audit sink raises while a completed tool call is logged, the
\* call still returns the tool's own normalised result.
C9_SinkFailureSwallowed ==
    (Done /\ ExecutorInvoked /\ Trace.exec[1].outcome.kind = "return"
        /\ IsDict(Trace.exec[1].outcome.value) /\ Trace.sinkFailures > 0) =>
        /\ tm_out.returned
        /\ tm_out.result = NormalizeResult(Trace.exec[1].outcome.value)

\* C20: for a tool name that is not in the registry, execute_tool returns
\* exactly {success: false, data: null, error: "Unknown tool: <name>"} and
\* calls neither the path validator, an argument builder nor the executor.
C20_UnknownToolRefused ==
    (Done /\ tm_name \notin ToolNames) =>
        /\ tm_out.returned
        /\ tm_out.result = [success |-> FALSE, data |-> None,
                            error |-> Str(<<"Unknown tool: ", tm_name>>)]
        /\ Trace.validator = <<>> /\ ~Trace.built /\ ~ExecutorInvoked

\* "Unknown Tool" was called with a traversal path among its parameters and
\* was refused by name
C20_Witness ==
    /\ Done /\ tm_name = "Unknown Tool"
    /\ "path" \in DOMAIN tm_params /\ tm_params["path"] = P_TRAV
    /\ tm_out.returned
    /\ tm_out.result.error = Str(<<"Unknown tool: ", "Unknown Tool">>)
    /\ Trace.validator = <<>>

\* C21: every call to execute_tool appends exactly one entry to the audit
\* log, whatever its outcome.
C21_OneAuditEntryPerCall ==
    Done => Len(Trace.audit) = 1

\* C22: every audit entry written by execute_tool with success = false
\* carries a non-null error detail.
C22_FailedEntryHasError ==
    Done => \A i \in 1..Len(Trace.audit) :
                ~Trace.audit[i].success => Trace.audit[i].error # None

\* the executor ran and handed back a value (it did not raise)
ExecutorReturned == ExecutorInvoked /\ Trace.exec[1].outcome.kind = "return"
RawOutput == Trace.exec[1].outcome.value

\* C23: when the executor returns a bare value that is not an envelope,
\* execute_tool returns {success: true, data: that value, error: null}.
C23_BareValueWrapped ==
    (Done /\ ExecutorReturned /\ ~IsDict(RawOutput)) =>
        /\ tm_out.returned
        /\ tm_out.result = [success |-> TRUE, data |-> RawOutput, error |-> None]

\* C24: when a raw envelope has success = true and data absent or null, the
\* normalised data is the map of the raw envelope's keys other than success,
\* data and error, with their values.
C24_DataSynthesized ==
    (/\ Done /\ ExecutorReturned /\ IsDict(RawOutput)
     /\ Truthy(GetOr(RawOutput.m, "success", Bool(FALSE)))
     /\ Get(RawOutput.m, "data") = None) =>
        /\ tm_out.returned
        /\ tm_out.result.data =
              Dict([k \in DOMAIN RawOutput.m \ {"success", "data", "error"} |->
                       RawOutput.m[k]])

\* the registry entries without a capability
InlineTools == {name \in ToolNames : Tools[name].skill = NoSkill}

\* C25: a registry entry without a capability is resolved inline: the
\* executor is never invoked for it, a theme of "light" or "dark" returns
\* success with data {theme}, and every other theme returns a failure.
C25_InlineThemeResolved ==
    (Done /\ tm_name \in InlineTools) =>
        /\ ~ExecutorInvoked /\ ~Trace.built
        /\ tm_out.returned
        /\ IF "theme" \in DOMAIN tm_params /\ tm_params["theme"] \in {LIGHT, DARK}
           THEN tm_out.result =
                   [success |-> TRUE,
                    data |-> Dict([k \in {"theme"} |-> Str(tm_params["theme"])]),
                    error |-> None]
           ELSE ~tm_out.result.success

\* "Set UI Theme" was called with the theme "blue" and refused
C25_Witness ==
    /\ Done /\ tm_name \in InlineTools
    /\ "theme" \in DOMAIN tm_params /\ tm_params["theme"] = BLUE
    /\ tm_out.returned /\ ~tm_out.result.success
    /\ ~ExecutorInvoked

(***************************************************************************)
(* gdrive_retry: exponential_backoff_retry and RetryContext, as used by     *)
(* drive-search/scripts/search_files.py and specified by test_retry.py      *)
(***************************************************************************)
\* @exponential_backoff_retry(max_retries=5) on search_files
SEARCH_MAX_RETRIES == 5

\* the HttpError values a Drive call may raise: status and error reason
HttpErrors ==
    {[status |-> st, reason |-> "none"] : st \in {429, 500, 503, 404, 401}}
        \cup {[status |-> 403, reason |-> r] :
                 r \in {"permissionDenied", "userRateLimitExceeded"}}

NoError == [status |-> 0, reason |-> "none"]

\* an error test that takes every 403 for a rate limit
is_retryable_error_any_403(error) ==
    error.status = 429 \/ error.status >= 500 \/ error.status = 403

\* is_retryable_error: 429, 5xx, and 403 with a rate-limit reason
is_retryable_error(error) ==
    \/ error.status = 429
    \/ error.status >= 500
    \/ error.status = 403 /\ error.reason = "userRateLimitExceeded"

\* a wrapper that allows one attempt fewer
after_failure_short(error, attempt, max_retries) ==
    IF ~is_retryable_error(error) THEN "PermanentError"
    ELSE IF attempt >= max_retries THEN "RetryableError"
    ELSE "sleep"

\* what the wrapper does when attempt number `attempt` raised `error`
after_failure(error, attempt, max_retries) ==
    IF ~is_retryable_error(error) THEN "PermanentError"
    ELSE IF attempt > max_retries THEN "RetryableError"
    ELSE "sleep"

RetryBudgets == 0..MaxRetries \cup {SEARCH_MAX_RETRIES}

RetryInit ==
    /\ \E n \in RetryBudgets :
           /\ rt = [max_retries |-> n, pc |-> "call", attempts |-> 0, sleeps |-> 0,
                    failures |-> 0, error |-> NoError, raised |-> "none"]
           /\ rc = [max_retries |-> n, retry_count |-> 0, sleeps |-> 0, calls |-> 0,
                    before |-> 0, error |-> NoError, answer |-> FALSE]

RetryParked ==
    /\ rt = [max_retries |-> 0, pc |-> "parked", attempts |-> 0, sleeps |-> 0,
             failures |-> 0, error |-> NoError, raised |-> "none"]
    /\ rc = [max_retries |-> 0, retry_count |-> 0, sleeps |-> 0, calls |-> 0,
             before |-> 0, error |-> NoError, answer |-> FALSE]

\* the wrapper calls the decorated function, which returns
AttemptReturns ==
    /\ rt.pc = "call"
    /\ rt' = [rt EXCEPT !.attempts = @ + 1, !.pc = "returned", !.error = NoError]
    /\ UNCHANGED <<rc, pathVars, toolVars, memVars, concVars, fileVars>>

\* the wrapper calls the decorated function, which raises an HttpError
AttemptRaises ==
    /\ rt.pc = "call"
    /\ \E error \in HttpErrors :
          \E next \in {after_failure(error, rt.attempts + 1, rt.max_retries)} :
              rt' = [rt EXCEPT !.attempts = @ + 1,
                               !.error = error,
                               !.failures = @ + 1,
                               !.pc = IF next = "sleep" THEN "sleep" ELSE "raised",
                               !.raised = IF next = "sleep" THEN "none" ELSE next]
    /\ UNCHANGED <<rc, pathVars, toolVars, memVars, concVars, fileVars>>

\* time.sleep(backoff) returns and the wrapper goes round its loop
Sleep ==
    /\ rt.pc = "sleep"
    /\ rt' = [rt EXCEPT !.sleeps = @ + 1, !.pc = "call"]
    /\ UNCHANGED <<rc, pathVars, toolVars, memVars, concVars, fileVars>>

\* RetryContext.should_retry: the context after the call, with its answer
should_retry(ctx, error) ==
    IF ~is_retryable_error(error) THEN [ctx EXCEPT !.answer = FALSE]
    ELSE IF ctx.retry_count >= ctx.max_retries THEN [ctx EXCEPT !.answer = FALSE]
    ELSE [ctx EXCEPT !.retry_count = @ + 1, !.sleeps = @ + 1, !.answer = TRUE]

\* a caller asks the context about an error
ShouldRetry ==
    /\ rc.calls < rc.max_retries + 2
    /\ \E error \in HttpErrors :
           rc' = [should_retry(rc, error) EXCEPT !.calls = @ + 1,
                                                 !.before = rc.retry_count,
                                                 !.error = error]
    /\ UNCHANGED <<rt, pathVars, toolVars, memVars, concVars, fileVars>>

RetryNext == AttemptReturns \/ AttemptRaises \/ Sleep \/ ShouldRetry

Finished == rt.pc \in {"returned", "raised"}

RetryCounts ==
    /\ rt.attempts <= rt.max_retries + 1 /\ rt.sleeps <= rt.max_retries
    /\ (rt.pc = "raised" /\ rt.raised = "RetryableError") =>
           rt.attempts = rt.max_retries + 1 /\ rt.sleeps = rt.max_retries
    /\ (rt.failures = rt.max_retries + 1 /\ rt.raised # "PermanentError") =>
           rt.pc = "raised" /\ rt.raised = "RetryableError"
    /\ rt.pc = "returned" => rt.sleeps = rt.attempts - 1

\* C31: a function wrapped with exponential_backoff_retry(max_retries = N)
\* terminates; when every attempt fails with a retryable error it is
\* attempted N + 1 times with N sleeps and then raises RetryableError, and
\* when attempt k succeeds the value is returned after k - 1 sleeps.
C31_RetryTerminates == []RetryCounts /\ <>Finished

\* search_files (max_retries = 5) gave up after six attempts and five sleeps
C31_Witness ==
    /\ rt.max_retries = SEARCH_MAX_RETRIES
    /\ rt.pc = "raised" /\ rt.raised = "RetryableError"
    /\ rt.attempts = SEARCH_MAX_RETRIES + 1 /\ rt.sleeps = SEARCH_MAX_RETRIES

\* HTTP 404, 401, or 403 without a rate-limit reason
Permanent(error) ==
    \/ error.status \in {404, 401}
    \/ error.status = 403 /\ error.reason # "userRateLimitExceeded"

\* C32: a permanent error is never retried: the wrapper raises PermanentError
\* without sleeping again, and should_retry answers false and leaves
\* retry_count alone; for a retryable error should_retry answers true and
\* increments retry_count until it has reached max_retries, then false.
C32_PermanentNeverRetried ==
    /\ Permanent(rt.error) =>
           /\ rt.pc = "raised" /\ rt.raised = "PermanentError"
           /\ rt.sleeps = rt.attempts - 1
    /\ rt.raised = "PermanentError" => Permanent(rt.error)
    /\ rc.retry_count <= rc.max_retries
    /\ rc.calls > 0 =>
           IF Permanent(rc.error)
           THEN ~rc.answer /\ rc.retry_count = rc.before
           ELSE IF rc.before < rc.max_retries
           THEN rc.answer /\ rc.retry_count = rc.before + 1
           ELSE ~rc.answer /\ rc.retry_count = rc.before

\* a 403 without a rate-limit reason on the first attempt ended the run, and
\* a context that had retried twice refused a 404
C32_Witness ==
    /\ rt.error = [status |-> 403, reason |-> "permissionDenied"]
    /\ rt.attempts = 1 /\ rt.sleeps = 0 /\ rt.raised = "PermanentError"
    /\ rc.error = [status |-> 404, reason |-> "none"]
    /\ rc.before = 2 /\ rc.retry_count = 2 /\ ~rc.answer

(***************************************************************************)
(* The filesystem seen through pathlib.  A path is its sequence of parts,  *)
(* the root first; no symbolic links.                                      *)
(***************************************************************************)
ROOT == <<"/">>

\* PurePosixPath(base) / text
PathJoin(base, text) ==
    LET parts == PosixParts(text)
    IN  IF parts # <<>> /\ Head(parts[1]) = "/" THEN parts ELSE base \o parts

\* Path.parent
Parent(p) == IF Len(p) <= 1 THEN p ELSE SubSeq(p, 1, Len(p) - 1)

\* Path.resolve(): ".." steps to the parent, and stays at the root
RECURSIVE Resolve(_)
Resolve(p) ==
    IF p = <<>> THEN <<>>
    ELSE LET before == Resolve(SubSeq(p, 1, Len(p) - 1))
             last   == p[Len(p)]
         IN  IF Head(last) = "/" THEN <<ROOT>>
             ELSE IF last = DOTDOT THEN Parent(before)
             ELSE Append(before, last)

IsFileAt(nodes, loc) == \E n \in nodes : n.loc = loc /\ n.kind = "file"
IsDirAt(nodes, loc) == \E n \in nodes : n.loc = loc /\ n.kind = "dir"

\* the location the kernel reaches for path p: every component on the way
\* must be a directory
Locate(nodes, p) ==
    [ok  |-> \A k \in 1..(Len(p) - 1) : IsDirAt(nodes, Resolve(SubSeq(p, 1, k))),
     loc |-> Resolve(p)]

\* Path.exists(), Path.is_file(), Path.is_dir()
Exists(nodes, p) ==
    Locate(nodes, p).ok /\ \E n \in nodes : n.loc = Locate(nodes, p).loc
IsFile(nodes, p) == Locate(nodes, p).ok /\ IsFileAt(nodes, Locate(nodes, p).loc)
IsDir(nodes, p) == Locate(nodes, p).ok /\ IsDirAt(nodes, Locate(nodes, p).loc)

DataAt(nodes, loc) == (CHOOSE n \in nodes : n.loc = loc).data

\* Path.mkdir(parents=True, exist_ok=True): the directories made on the way,
\* failing where a component is a file
RECURSIVE Mkdir(_, _, _)
Mkdir(nodes, p, k) ==
    IF k > Len(p) THEN [ok |-> TRUE, nodes |-> nodes]
    ELSE LET loc == Resolve(SubSeq(p, 1, k))
         IN  IF IsFileAt(nodes, loc) THEN [ok |-> FALSE, nodes |-> nodes]
             ELSE Mkdir(nodes \cup IF IsDirAt(nodes, loc) THEN {}
                                   ELSE {[loc |-> loc, kind |-> "dir", data |-> <<>>]},
                        p, k + 1)

\* Path.write_bytes / write_text on path p, whose parent exists
WriteFile(nodes, p, data) ==
    {n \in nodes : n.loc # Resolve(p)}
        \cup {[loc |-> Resolve(p), kind |-> "file", data |-> data]}

\* Path.unlink(), or shutil.rmtree: the node at loc and all below it go
Remove(nodes, loc) == {n \in nodes : ~IsPrefix(loc, n.loc)}

\* Path.rename(target): the node at loc and all below it move to target,
\* replacing a file that was there
Rename(nodes, loc, target) ==
    {n \in nodes : ~IsPrefix(loc, n.loc) /\ n.loc # target}
        \cup {[n EXCEPT !.loc = target \o SubSeq(n.loc, Len(loc) + 1, Len(n.loc))] :
                 n \in {m \in nodes : IsPrefix(loc, m.loc)}}

Dir(loc) == [loc |-> loc, kind |-> "dir", data |-> <<>>]
File(loc, data) == [loc |-> loc, kind |-> "file", data |-> data]

STORAGE_BASE == <<ROOT, <<"storage">> >>
WORKSPACE_BASE == <<ROOT, <<"workspace">> >>
\* Path.home() / "Documents" / "Agent Smith" / "Documents"
DOCUMENTS_BASE ==
    <<ROOT, <<"home">>, <<"Documents">>, <<"Agent Smith">>, <<"Documents">> >>

\* the tree the calls start from
InitialTree ==
    {Dir(<<ROOT>>), Dir(STORAGE_BASE), Dir(WORKSPACE_BASE),
     Dir(SubSeq(DOCUMENTS_BASE, 1, 2)), Dir(SubSeq(DOCUMENTS_BASE, 1, 3)),
     Dir(Parent(DOCUMENTS_BASE)), Dir(DOCUMENTS_BASE),
     File(Append(STORAGE_BASE, <<"a">>), <<"x">>),
     File(Append(STORAGE_BASE, <<"b">>), <<"y">>),
     Dir(Append(WORKSPACE_BASE, <<"documents">>)),
     File(WORKSPACE_BASE \o << <<"documents">>, <<"a">> >>, <<"x">>),
     Dir(WORKSPACE_BASE \o << <<"documents">>, <<"d">> >>),
     File(Append(WORKSPACE_BASE, <<"secret">>), <<"s">>),
     File(Append(DOCUMENTS_BASE, <<"a">>), <<"x">>),
     Dir(Append(DOCUMENTS_BASE, <<"d">>)),
     File(Append(Parent(DOCUMENTS_BASE), <<"private">>), <<"s">>)}

\* what a call did: whether it returned, its HTTP status or exception, the
\* filesystem after it, the locations it acted on and the content it sent
Did(nodes, returned, status, touched, content) ==
    [nodes |-> nodes, returned |-> returned, status |-> status,
     touched |-> touched, content |-> content]

(***************************************************************************)
(* LocalStorage (api/services/storage/local.py) and                        *)
(* StorageBackend.move_object (api/services/storage/base.py)               *)
(***************************************************************************)
\* LocalStorage._resolve_key
resolve_key(key) ==
    PathJoin(STORAGE_BASE, SubSeq(key, LeadingSlashes(key) + 1, Len(key)))

\* LocalStorage.copy_object
copy_object(nodes, source_key, destination_key) ==
    LET source == resolve_key(source_key)
        dest   == resolve_key(destination_key)
        made   == Mkdir(nodes, Parent(dest), 1)
    IN  IF ~made.ok THEN Did(nodes, FALSE, "FileExistsError", {}, <<>>)
        ELSE IF ~IsFile(made.nodes, source)
        THEN Did(made.nodes, FALSE, "FileNotFoundError", {}, <<>>)
        ELSE IF IsDir(made.nodes, dest)
        THEN Did(made.nodes, FALSE, "IsADirectoryError", {}, <<>>)
        ELSE Did(WriteFile(made.nodes, dest, DataAt(made.nodes, Resolve(source))),
                 TRUE, "ok", {Resolve(source), Resolve(dest)}, <<>>)

\* LocalStorage.delete_object
delete_object(nodes, key) ==
    LET path == resolve_key(key)
    IN  IF ~Exists(nodes, path) THEN Did(nodes, TRUE, "ok", {}, <<>>)
        ELSE IF IsDir(nodes, path)
        THEN Did(nodes, FALSE, "IsADirectoryError", {}, <<>>)
        ELSE Did(Remove(nodes, Resolve(path)), TRUE, "ok", {Resolve(path)}, <<>>)

\* StorageBackend.move_object
move_object(nodes, source_key, destination_key) ==
    LET copied == copy_object(nodes, source_key, destination_key)
    IN  IF ~copied.returned THEN copied
        ELSE delete_object(copied.nodes, source_key)

StorageKeys ==
    {<<"a">>, <<"/", "a">>, <<"/", "/", "a">>, <<"b">>, <<"c">>,
     <<"d", "/", "a">>, <<"a", "/", "c">>, <<>>}

(***************************************************************************)
(* The files router (api/routers/files.py).  A handler that raises         *)
(* HTTPException(status) answers with that status; an exception it does    *)
(* not catch is answered with 500.                                         *)
(***************************************************************************)
\* Path(WORKSPACE_BASE) / base_path
workspace_path(req) == PathJoin(WORKSPACE_BASE, req.base_path)

\* full_path.relative_to(workspace_path) succeeds: a comparison of parts
RelativeTo(path, base) == IsPrefix(base, path)

Status(nodes, status) == Did(nodes, FALSE, status, {}, <<>>)

\* create_folder
create_folder(nodes, req) ==
    LET path      == StripSlashes(req.path)
        full_path == PathJoin(workspace_path(req), path)
        made      == Mkdir(nodes, full_path, 1)
    IN  IF path = <<>> THEN Status(nodes, "400")
        ELSE IF ~RelativeTo(full_path, workspace_path(req)) THEN Status(nodes, "403")
        ELSE IF ~made.ok THEN Status(nodes, "500")
        ELSE Did(made.nodes, TRUE, "200", {Resolve(full_path)}, <<>>)

\* move_file_or_folder
move_file_or_folder(nodes, req) ==
    LET full_path   == PathJoin(workspace_path(req), req.path)
        dest_path   == Resolve(PathJoin(workspace_path(req), req.destination))
        target_path == Append(dest_path, full_path[Len(full_path)])
        source      == Resolve(full_path)
        target      == Resolve(target_path)
        made        == Mkdir(nodes, dest_path, 1)
    IN  IF req.path = <<>> THEN Status(nodes, "400")
        ELSE IF \/ ~RelativeTo(full_path, workspace_path(req))
                \/ ~RelativeTo(dest_path, workspace_path(req))
        THEN Status(nodes, "403")
        ELSE IF ~Exists(nodes, full_path) THEN Status(nodes, "404")
        ELSE IF Exists(nodes, target_path) THEN Status(nodes, "400")
        ELSE IF ~made.ok \/ IsPrefix(source, target) THEN Status(nodes, "500")
        ELSE Did(Rename(made.nodes, source, target), TRUE, "200",
                 {source, target}, <<>>)

\* delete_file_or_folder
delete_file_or_folder(nodes, req) ==
    LET full_path == PathJoin(workspace_path(req), req.path)
    IN  IF req.path = <<>> \/ req.path = <<"/">> THEN Status(nodes, "400")
        ELSE IF ~Exists(nodes, full_path) THEN Status(nodes, "404")
        ELSE IF ~RelativeTo(full_path, workspace_path(req)) THEN Status(nodes, "403")
        ELSE Did(Remove(nodes, Resolve(full_path)), TRUE, "200",
                 {Resolve(full_path)}, <<>>)

\* download_file
download_file(nodes, req) ==
    LET full_path == PathJoin(workspace_path(req), req.path)
    IN  IF req.path = <<>> THEN Status(nodes, "400")
        ELSE IF ~RelativeTo(full_path, workspace_path(req)) THEN Status(nodes, "403")
        ELSE IF ~IsFile(nodes, full_path) THEN Status(nodes, "404")
        ELSE Did(nodes, TRUE, "200", {Resolve(full_path)},
                 DataAt(nodes, Resolve(full_path)))

\* get_file_content
get_file_content(nodes, req) ==
    LET full_path == PathJoin(workspace_path(req), req.path)
    IN  IF req.path = <<>> THEN Status(nodes, "400")
        ELSE IF ~RelativeTo(full_path, workspace_path(req)) THEN Status(nodes, "403")
        ELSE IF ~Exists(nodes, full_path) THEN Status(nodes, "404")
        ELSE IF ~IsFile(nodes, full_path) THEN Status(nodes, "400")
        ELSE Did(nodes, TRUE, "200", {Resolve(full_path)},
                 DataAt(nodes, Resolve(full_path)))

\* update_file_content
update_file_content(nodes, req) ==
    LET full_path == PathJoin(workspace_path(req), req.path)
        made      == Mkdir(nodes, Parent(full_path), 1)
    IN  IF req.path = <<>> THEN Status(nodes, "400")
        ELSE IF ~RelativeTo(full_path, workspace_path(req)) THEN Status(nodes, "403")
        ELSE IF ~made.ok THEN Status(nodes, "500")
        ELSE IF IsDir(made.nodes, full_path) THEN Status(made.nodes, "500")
        ELSE Did(WriteFile(made.nodes, full_path, req.content), TRUE, "200",
                 {Resolve(full_path)}, <<>>)

RouterOps == {"create_folder", "move", "delete", "download", "get_content",
              "update_content"}

\* the handler the router selects
files_route(nodes, req) ==
    CASE req.op = "create_folder" -> create_folder(nodes, req)
      [] req.op = "move" -> move_file_or_folder(nodes, req)
      [] req.op = "delete" -> delete_file_or_folder(nodes, req)
      [] req.op = "download" -> download_file(nodes, req)
      [] req.op = "get_content" -> get_file_content(nodes, req)
      [] req.op = "update_content" -> update_file_content(nodes, req)

(***************************************************************************)
(* local-manage scripts: rename_file.py, copy_file.py, delete_file.py      *)
(***************************************************************************)
\* validate_path: the resolved path, or the ValueError it raises
validate_path_local(p) ==
    LET full == Resolve(PathJoin(DOCUMENTS_BASE, p))
    IN  [ok |-> RelativeTo(full, Resolve(DOCUMENTS_BASE)), full |-> full]

\* rename_file
rename_file(nodes, old_name, new_name) ==
    LET old_path == validate_path_local(old_name)
        new_path == PathJoin(Parent(old_path.full), new_name)
        target   == Locate(nodes, new_path)
    IN  IF ~old_path.ok THEN Did(nodes, FALSE, "ValueError", {}, <<>>)
        ELSE IF ~Exists(nodes, old_path.full)
        THEN Did(nodes, FALSE, "FileNotFoundError", {}, <<>>)
        ELSE IF target.loc = old_path.full
        THEN Did(nodes, TRUE, "ok", {old_path.full}, <<>>)
        ELSE IF \/ ~target.ok \/ ~IsDirAt(nodes, Parent(target.loc))
                \/ IsDirAt(nodes, target.loc)
                \/ IsDirAt(nodes, old_path.full) /\ IsFileAt(nodes, target.loc)
                \/ IsPrefix(old_path.full, target.loc)
        THEN Did(nodes, FALSE, "OSError", {}, <<>>)
        ELSE Did(Rename(nodes, old_path.full, target.loc), TRUE, "ok",
                 {old_path.full, target.loc}, <<>>)

\* copy_file
copy_file(nodes, source, dest) ==
    LET src_path  == validate_path_local(source)
        dest_path == validate_path_local(dest)
        made      == Mkdir(nodes, Parent(dest_path.full), 1)
        target    == IF IsDirAt(made.nodes, dest_path.full)
                     THEN Append(dest_path.full, src_path.full[Len(src_path.full)])
                     ELSE dest_path.full
    IN  IF ~src_path.ok \/ ~dest_path.ok THEN Did(nodes, FALSE, "ValueError", {}, <<>>)
        ELSE IF ~Exists(nodes, src_path.full)
        THEN Did(nodes, FALSE, "FileNotFoundError", {}, <<>>)
        ELSE IF ~IsFile(nodes, src_path.full)
        THEN Did(nodes, FALSE, "ValueError", {}, <<>>)
        ELSE IF ~made.ok THEN Did(nodes, FALSE, "FileExistsError", {}, <<>>)
        ELSE IF target = src_path.full \/ IsDirAt(made.nodes, target)
        THEN Did(made.nodes, FALSE, "OSError", {}, <<>>)
        ELSE Did(WriteFile(made.nodes, target, DataAt(nodes, src_path.full)),
                 TRUE, "ok", {src_path.full, target}, <<>>)

\* delete_file
delete_file(nodes, path, recursive) ==
    LET file_path == validate_path_local(path)
    IN  IF ~file_path.ok THEN Did(nodes, FALSE, "ValueError", {}, <<>>)
        ELSE IF ~Exists(nodes, file_path.full)
        THEN Did(nodes, FALSE, "FileNotFoundError", {}, <<>>)
        ELSE IF IsDir(nodes, file_path.full) /\ ~recursive
        THEN Did(nodes, FALSE, "ValueError", {}, <<>>)
        ELSE Did(Remove(nodes, file_path.full), TRUE, "ok", {file_path.full}, <<>>)

(***************************************************************************)
(* Calls on the filesystem, one per behaviour                              *)
(***************************************************************************)
Request(program, op, path, other, flag) ==
    [program |-> program, op |-> op, base_path |-> <<"documents">>, path |-> path,
     destination |-> other, content |-> <<"z">>, recursive |-> flag]

\* request paths: plain names, paths through "..", and an absolute path
RequestPaths ==
    {<<>>, <<"/">>, <<"a">>, <<"d">>, <<"n">>, <<"d", "/", "n">>,
     <<".", ".", "/", "secret">>, <<".", ".", "/", "n">>,
     <<"d", "/", ".", ".", "/", "a">>, <<"/", "workspace", "/", "secret">>,
     <<".", ".", "/", "private">>, <<"/", "n">>}

Requests ==
    {Request("storage", "move_object", s, d, FALSE) : s, d \in StorageKeys}
        \cup {Request("router", op, p, <<>>, FALSE) :
                 op \in RouterOps \ {"move"}, p \in RequestPaths}
        \cup {Request("router", "move", p, d, FALSE) :
                 p \in RequestPaths, d \in {<<>>, <<"d">>, <<".", ".">>, <<"n">>}}
        \cup {Request("local", op, p, q, FALSE) :
                 op \in {"rename_file", "copy_file"}, p, q \in RequestPaths}
        \cup {Request("local", "delete_file", p, <<>>, r) :
                 p \in RequestPaths, r \in BOOLEAN}

NotDone == Did(InitialTree, FALSE, "pending", {}, <<>>)

FilesInit ==
    /\ fs_nodes = InitialTree
    /\ fs_req \in Requests
    /\ fs_out = NotDone

FilesParked ==
    /\ fs_nodes = {}
    /\ fs_req = Request("none", "none", <<>>, <<>>, FALSE)
    /\ fs_out = NotDone

Finish(out) ==
    /\ fs_out = NotDone
    /\ fs_out' = out
    /\ fs_nodes' = out.nodes
    /\ UNCHANGED <<fs_req, pathVars, toolVars, memVars, concVars, retryVars>>

\* a caller moves a stored object
MoveObject ==
    /\ fs_req.program = "storage"
    /\ Finish(move_object(fs_nodes, fs_req.path, fs_req.destination))

\* the files router answers a request
FilesRequest ==
    /\ fs_req.program = "router"
    /\ Finish(files_route(fs_nodes, fs_req))

\* a local-manage script runs
LocalManage ==
    /\ fs_req.program = "local"
    /\ Finish(CASE fs_req.op = "rename_file" ->
                       rename_file(fs_nodes, fs_req.path, fs_req.destination)
                 [] fs_req.op = "copy_file" ->
                       copy_file(fs_nodes, fs_req.path, fs_req.destination)
                 [] fs_req.op = "delete_file" ->
                       delete_file(fs_nodes, fs_req.path, fs_req.recursive))

FilesNext == MoveObject \/ FilesRequest \/ LocalManage

(***************************************************************************)
(* Properties of the calls on the filesystem                               *)
(***************************************************************************)
Called(program) == fs_req.program = program /\ fs_out # NotDone

\* C37: after move_object on an existing source returns, the destination key
\* exists and holds the bytes the source held before the call, also when
\* both keys denote the same object
C37_MoveKeepsObject ==
    LET source == resolve_key(fs_req.path)
        dest   == resolve_key(fs_req.destination)
    IN  Called("storage") /\ fs_out.returned /\ IsFile(InitialTree, source)
            => /\ IsFile(fs_nodes, dest)
               /\ DataAt(fs_nodes, Resolve(dest)) = DataAt(InitialTree, Resolve(source))

\* the nodes of a tree that lie outside base, once ".." is resolved
OutsideOf(nodes, base) == {n \in nodes : ~IsPrefix(Resolve(base), n.loc)}

\* the call left everything outside base as it was and acted on nothing there
KeptInside(base) ==
    /\ OutsideOf(fs_nodes, base) = OutsideOf(InitialTree, base)
    /\ \A loc \in fs_out.touched : IsPrefix(Resolve(base), loc)

\* C38: no request to the files router touches a location that, once ".."
\* is resolved, lies outside WORKSPACE_BASE/basePath; a request whose path
\* leads there is rejected without any filesystem effect
C38_WorkspaceGuard ==
    LET path == IF fs_req.op = "create_folder" THEN StripSlashes(fs_req.path)
                ELSE fs_req.path
        full == Resolve(PathJoin(workspace_path(fs_req), path))
    IN  Called("router")
            => /\ KeptInside(workspace_path(fs_req))
               /\ ~IsPrefix(Resolve(workspace_path(fs_req)), full)
                      => ~fs_out.returned /\ fs_nodes = InitialTree

\* C39: every local-manage operation keeps its effects inside DOCUMENTS_BASE:
\* rename_file, copy_file and delete_file either fail or act only on
\* locations that resolve inside it
C39_LocalManageStaysInside == Called("local") => KeptInside(DOCUMENTS_BASE)

(***************************************************************************)
(* Specifications                                                          *)
(***************************************************************************)
InitPath ==
    PathInit /\ ToolParked /\ MemParked /\ ConcParked
        /\ RetryParked /\ FilesParked

SpecPath == InitPath /\ [][PathNext]_vars

InitTool ==
    ToolInit /\ PathParked /\ MemParked /\ ConcParked
        /\ RetryParked /\ FilesParked

SpecTool == InitTool /\ [][ExecuteTool]_vars

SpecToolSinkFault == InitTool /\ [][ToolFaultNext]_vars

InitMem ==
    MemInit /\ PathParked /\ ToolParked /\ ConcParked
        /\ RetryParked /\ FilesParked

SpecMem == InitMem /\ [][MemCommand]_vars

InitConc ==
    ConcInit /\ PathParked /\ ToolParked
        /\ RetryParked /\ FilesParked

SpecConc == InitConc /\ [][ConcNext]_vars

InitRetry ==
    RetryInit /\ PathParked /\ ToolParked /\ MemParked /\ ConcParked /\ FilesParked

InitFiles ==
    FilesInit /\ PathParked /\ ToolParked /\ MemParked /\ ConcParked /\ RetryParked

SpecFiles == InitFiles /\ [][FilesNext]_vars

\* the wrapper's loop keeps running and time.sleep returns
SpecRetry ==
    InitRetry /\ [][RetryNext]_vars
        /\ WF_vars(AttemptReturns \/ AttemptRaises) /\ WF_vars(Sleep)

====
